---- MODULE Spec2Model ----
(***************************************************************************)
(* Document ingestion -> indexing -> reranking pipeline of the backend.    *)
(*                                                                         *)
(*   SpecChunk    : DocumentPipeline.create_semantic_chunks_with_pages and *)
(*                  DocumentPipeline.create_chunks_with_pages as functions *)
(*                  of their inputs.                                       *)
(*   SpecPipeline : DocumentPipeline.process_files_parallel on one file,   *)
(*                  with the whole of process_single_file.                 *)
(*   SpecParallel : DocumentPipeline.process_files_parallel on several     *)
(*                  files and a bounded worker pool.                       *)
(*   SpecRerank   : CohereReranker.rerank.                                 *)
(*   SpecQuery    : RAGService.index_document and RAGService.query on the  *)
(*                  Qdrant collection.                                     *)
(*   SpecChat     : the /api/chat handler and its conversation store.      *)
(*   SpecCitations   : CitationService.process_citations.                  *)
(*   SpecSnippet     : CitationService._extract_snippet.                   *)
(*   SpecEmbedClient : the embedding clients of llm_service.py and         *)
(*                     add_embeddings.py.                                  *)
(*   SpecUpload      : the /api/upload handler.                            *)
(*   SpecRechunk     : create_semantic_chunks_with_pages called several    *)
(*                     times on one DocumentPipeline object.               *)
(*   SpecClean       : the metadata cleaning of process_single_file.       *)
(*   SpecGovSearch   : GovernmentDataService.search_and_parse_with_retry.  *)
(*   SpecChunkText   : DocumentProcessor.chunk_text, one loop iteration    *)
(*                     per step.                                           *)
(*   SpecConversations : the chat, chat-plain and research handlers on     *)
(*                     concurrent server threads sharing the               *)
(*                     conversation store.                                 *)
(*                                                                         *)
(* Python lists are sequences; list positions are 0-based as in the code   *)
(* and translated by At and PySlice.  None is the string "None".           *)
(***************************************************************************)
EXTENDS Integers, Sequences, FiniteSets, TLC

VARIABLES
    phase,                \* which entry point this behaviour exercises
    sentences_with_pages, \* chunker input: list of {text, page_number}
    precomputed_embeddings, \* chunker input: one vector per sentence
    chunk_args,           \* chunker keyword arguments
    chunk_ret,            \* what the chunker call returned (or that it raised)
    files,                \* process_files_parallel: the submitted files (path, name, content)
    run_args,             \* process_files_parallel keyword arguments
    task,                 \* per submitted file: position and locals of its worker
    index,                \* the vector store: set of upserted records
    next_uuid,            \* number of uuid4 values drawn so far
    embed_calls,          \* per file: number of embedding-provider calls issued
    upsert_calls,         \* per file: list of batch offsets passed to upsert_documents
    results,              \* process_files_parallel: the results list
    documents,            \* rerank input: list of {text, metadata}
    top_n,                \* rerank input
    provider_reply,       \* what the rerank provider did: raised, or its results
    rerank_ret,           \* what rerank returned (or that it raised)
    qdrant_points,        \* the Qdrant collection: list of points in insertion order
    query_ret,            \* the last RAGService.query call and its outcome
    conversations,        \* app.conversations: conversation id -> message list
    chat_ret,             \* the last /api/chat request and its response
    crawled_content,      \* process_citations input: list of content items
    citation_args,        \* process_citations: top_k and what the embedding calls do
    citations_ret,        \* what process_citations returned
    snippet_text,         \* _extract_snippet input: a string, as its list of characters
    snippet_ret,          \* what _extract_snippet returned
    embed_request,        \* embedding client: the function called and its input
    embed_ret,            \* embedding client: what the call returned (or that it raised)
    upload_request,       \* /api/upload: the files and form fields of the request
    upload_ret,           \* /api/upload: the response
    chunker_self,         \* the DocumentPipeline object the chunker is called on
    chunker_runs,         \* chunker calls made on that object and what they returned
    chunk_metadata,       \* metadata cleaning: the metadata dict of one chunk
    clean_ret,            \* metadata cleaning: the document dict built from it
    gov_request,          \* search_and_parse_with_retry: query words, filters, sort
    gov_call,             \* search_and_parse_with_retry: position, attempts list, result
    gov_searches,         \* the search_datasets calls issued so far and their outcomes
    chunk_text_input,     \* DocumentProcessor.chunk_text: the text and the object's fields
    chunk_text_state,     \* DocumentProcessor.chunk_text: position and locals of the call
    handlers,             \* per server thread: the request it handles and its position
    handled               \* number of requests received so far

vars == <<phase, sentences_with_pages, precomputed_embeddings, chunk_args, chunk_ret,
          files, run_args, task, index, next_uuid, embed_calls, upsert_calls,
          results, documents, top_n, provider_reply, rerank_ret,
          qdrant_points, query_ret, conversations, chat_ret,
          crawled_content, citation_args, citations_ret, snippet_text, snippet_ret,
          embed_request, embed_ret, upload_request, upload_ret,
          chunker_self, chunker_runs, chunk_metadata, clean_ret,
          gov_request, gov_call, gov_searches, chunk_text_input, chunk_text_state,
          handlers, handled>>

chunkVars == <<sentences_with_pages, precomputed_embeddings, chunk_args, chunk_ret>>
pipeVars == <<files, run_args, task, index, next_uuid, embed_calls, upsert_calls, results>>
rerankVars == <<documents, top_n, provider_reply, rerank_ret>>
queryVars == <<qdrant_points, query_ret>>
chatVars == <<conversations, chat_ret>>
citeVars == <<crawled_content, citation_args, citations_ret>>
snippetVars == <<snippet_text, snippet_ret>>
clientVars == <<embed_request, embed_ret>>
uploadVars == <<upload_request, upload_ret>>
rechunkVars == <<chunker_self, chunker_runs>>
cleanVars == <<chunk_metadata, clean_ret>>
govVars == <<gov_request, gov_call, gov_searches>>
chunkTextVars == <<chunk_text_input, chunk_text_state>>
handlerVars == <<handlers, handled>>
lateVars == <<rechunkVars, cleanVars, govVars, chunkTextVars, handlerVars>>
serviceVars == <<queryVars, chatVars, citeVars, snippetVars, clientVars, uploadVars,
                 lateVars>>
\* the pipeline variables other than the uuid4 generator
pipeRest == <<files, run_args, task, index, embed_calls, upsert_calls, results>>

----------------------------------------------------------------------------
(* Bounds of the model.                                                    *)

MaxSentences == 3
MaxPage == 2
MaxChunkParam == 2
MaxFileSentences == 4
MaxBatchSize == 2
NumFiles == 2
MaxDocs == 2
MaxTopN == 2
MaxResults == 2
MaxPoints == 3
MaxTopK == 2
MaxRequests == 2
MaxContent == 3
MaxExtraChars == 4
MaxTexts == 2
MaxRuns == 3
MaxWords == 3
MaxTextLen == 5
MaxChunkSize == 3
MaxIterations == 7
MaxHandlers == 2

----------------------------------------------------------------------------
(* Python list helpers.                                                    *)

Min(a, b) == IF a < b THEN a ELSE b
Max(a, b) == IF a > b THEN a ELSE b

\* seq[i] for a 0-based, non-negative i
At(seq, i) == seq[i + 1]

\* seq[a:b] for 0 <= a and 0 <= b: the end is clamped to the length
PySlice(seq, a, b) == SubSeq(seq, a + 1, Min(b, Len(seq)))

\* seq[a:]
PyTail(seq, a) == SubSeq(seq, a + 1, Len(seq))

RECURSIVE SeqSum(_)
SeqSum(s) == IF s = <<>> THEN 0 ELSE Head(s) + SeqSum(Tail(s))

SetMin(S) == CHOOSE x \in S : \A y \in S : x <= y
SetMax(S) == CHOOSE x \in S : \A y \in S : x >= y

CeilDiv(a, b) == (a + b - 1) \div b

\* all sequences over S of length 0..n
SeqsUpTo(S, n) == UNION {[1..k -> S] : k \in 0..n}

----------------------------------------------------------------------------
(* Embeddings and cosine similarity.                                       *)
(* Embedding vectors are two-dimensional integer vectors whose norm is an  *)
(* integer, so that every cosine is an exact multiple of 1/25.             *)

Embeddings == {<<1, 0>>, <<3, 4>>, <<0, 0>>}

Dot(vec1, vec2) == vec1[1] * vec2[1] + vec1[2] * vec2[2]

\* np.linalg.norm
Norm(vec) == CHOOSE r \in 0..5 : r * r = Dot(vec, vec)

\* cosine_similarity(vec1, vec2), in units of 1/25
cosine_similarity(vec1, vec2) ==
    IF Norm(vec1) = 0 \/ Norm(vec2) = 0
    THEN 0
    ELSE (25 * Dot(vec1, vec2)) \div (Norm(vec1) * Norm(vec2))

\* similarity_threshold = 0.76, in units of 1/100
similarity_threshold == 76

\* defaults of create_semantic_chunks_with_pages, used by create_chunks_with_pages
default_min_chunk_size == 3
default_max_chunk_size == 50
default_buffer_size == 5

\* [cosine_similarity(all_embeddings[j], current_embedding) for j in range(buffer_start, i)]
RECURSIVE buffer_similarities(_, _, _)
buffer_similarities(all_embeddings, j, i) ==
    IF j >= i
    THEN <<>>
    ELSE <<cosine_similarity(At(all_embeddings, j), At(all_embeddings, i))>>
         \o buffer_similarities(all_embeddings, j + 1, i)

\* avg_similarity < similarity_threshold, where avg_similarity is
\* np.mean(buffer_similarities) if buffer_similarities else 1.0
avg_below_threshold(sims, threshold) ==
    IF sims = <<>>
    THEN 100 < threshold
    ELSE 100 * SeqSum(sims) < threshold * 25 * Len(sims)

----------------------------------------------------------------------------
(* Chunk construction.                                                     *)

\* first-occurrence order, duplicates removed, not sorted
RECURSIVE PagesInOrderOfAppearance(_)
PagesInOrderOfAppearance(pages) ==
    IF pages = <<>>
    THEN <<>>
    ELSE LET rest == PagesInOrderOfAppearance(SubSeq(pages, 1, Len(pages) - 1))
             p == pages[Len(pages)]
         IN  IF \E k \in 1..Len(rest) : rest[k] = p THEN rest ELSE Append(rest, p)

RECURSIVE SortedList(_)
SortedList(S) ==
    IF S = {} THEN <<>> ELSE <<SetMin(S)>> \o SortedList(S \ {SetMin(S)})

\* sorted(list(set([s['page_number'] for s in chunk_sentences])))
page_numbers_of(pages) == SortedList({pages[k] : k \in 1..Len(pages)})

\* None in an integer-valued field
NoneInt == 0 - 1

\* x or y, for strings and None
Or(x, y) == IF x \in {"None", ""} THEN y ELSE x

\* the chunk dict with chunk_index counted from one
make_chunk_indexed_from_one(chunk_sentences, chunk_index, document_name, filename, file_extension) ==
    LET page_numbers ==
            page_numbers_of([k \in 1..Len(chunk_sentences) |-> chunk_sentences[k].page_number])
    IN  [text |-> [k \in 1..Len(chunk_sentences) |-> chunk_sentences[k].text],
         metadata |->
            [document_name |-> document_name,
             page_numbers |-> page_numbers,
             page_start |-> IF page_numbers # <<>>
                            THEN SetMin({page_numbers[k] : k \in 1..Len(page_numbers)})
                            ELSE NoneInt,
             page_end |-> IF page_numbers # <<>>
                          THEN SetMax({page_numbers[k] : k \in 1..Len(page_numbers)})
                          ELSE NoneInt,
             chunk_index |-> chunk_index + 1,
             num_sentences |-> Len(chunk_sentences),
             filename |-> Or(filename, document_name),
             file_extension |-> Or(file_extension, "")]]

\* the chunk dict built at each emission
make_chunk(chunk_sentences, chunk_index, document_name, filename, file_extension) ==
    LET page_numbers ==
            page_numbers_of([k \in 1..Len(chunk_sentences) |-> chunk_sentences[k].page_number])
    IN  [text |-> [k \in 1..Len(chunk_sentences) |-> chunk_sentences[k].text],
         metadata |->
            [document_name |-> document_name,
             page_numbers |-> page_numbers,
             page_start |-> IF page_numbers # <<>>
                            THEN SetMin({page_numbers[k] : k \in 1..Len(page_numbers)})
                            ELSE NoneInt,
             page_end |-> IF page_numbers # <<>>
                          THEN SetMax({page_numbers[k] : k \in 1..Len(page_numbers)})
                          ELSE NoneInt,
             chunk_index |-> chunk_index,
             num_sentences |-> Len(chunk_sentences),
             filename |-> Or(filename, document_name),
             file_extension |-> Or(file_extension, "")]]

\* should_split with the forced split one sentence late
should_split_late(all_embeddings, i, current_chunk_start, args) ==
    LET buffer_start == Max(current_chunk_start, i - args.buffer_size)
        sims == buffer_similarities(all_embeddings, buffer_start, i)
        chunk_size == i - current_chunk_start
    IN  \/ chunk_size > args.max_chunk_size
        \/ /\ chunk_size >= args.min_chunk_size
           /\ avg_below_threshold(sims, args.similarity_threshold)

\* should_split with the similarity split not held back by min_chunk_size
should_split_ignoring_min(all_embeddings, i, current_chunk_start, args) ==
    LET buffer_start == Max(current_chunk_start, i - args.buffer_size)
        sims == buffer_similarities(all_embeddings, buffer_start, i)
        chunk_size == i - current_chunk_start
    IN  \/ chunk_size >= args.max_chunk_size
        \/ avg_below_threshold(sims, args.similarity_threshold)

\* should_split comparing with the last buffer_size sentences of the document,
\* emitted or not
should_split_unclamped(all_embeddings, i, current_chunk_start, args) ==
    LET buffer_start == Max(0, i - args.buffer_size)
        sims == buffer_similarities(all_embeddings, buffer_start, i)
        chunk_size == i - current_chunk_start
    IN  \/ chunk_size >= args.max_chunk_size
        \/ /\ chunk_size >= args.min_chunk_size
           /\ avg_below_threshold(sims, args.similarity_threshold)

\* should_split at index i with the open chunk starting at current_chunk_start
should_split(all_embeddings, i, current_chunk_start, args) ==
    LET buffer_start == Max(current_chunk_start, i - args.buffer_size)
        sims == buffer_similarities(all_embeddings, buffer_start, i)
        chunk_size == i - current_chunk_start
    IN  \/ chunk_size >= args.max_chunk_size
        \/ /\ chunk_size >= args.min_chunk_size
           /\ avg_below_threshold(sims, args.similarity_threshold)

\* the loop "for i in range(1, len(sentences_with_pages))" from index i on;
\* st = [start, chunks, raised]; all_embeddings[i] raises IndexError when the
\* embedding list is too short
RECURSIVE semantic_loop(_, _, _, _, _)
semantic_loop(sents, all_embeddings, args, i, st) ==
    IF i >= Len(sents)
    THEN st
    ELSE IF i >= Len(all_embeddings)
    THEN [st EXCEPT !.raised = TRUE]
    ELSE IF should_split(all_embeddings, i, st.start, args)
    THEN semantic_loop(sents, all_embeddings, args, i + 1,
            [st EXCEPT !.chunks = Append(st.chunks,
                            make_chunk(PySlice(sents, st.start, i), Len(st.chunks),
                                       args.document_name, args.filename,
                                       args.file_extension)),
                       !.start = i])
    ELSE semantic_loop(sents, all_embeddings, args, i + 1, st)

\* the split loop alone: the sentences after the last split are dropped
semantic_chunks_without_flush(sents, all_embeddings, args) ==
    semantic_loop(sents, all_embeddings, args, 1,
                  [start |-> 0, chunks |-> <<>>, raised |-> FALSE])

\* lines 146-218 of create_semantic_chunks_with_pages: the split loop and the
\* final flush, for a non-empty sentence list
semantic_chunks(sents, all_embeddings, args) ==
    LET st == semantic_loop(sents, all_embeddings, args, 1,
                            [start |-> 0, chunks |-> <<>>, raised |-> FALSE])
    IN  IF st.raised
        THEN st
        ELSE IF st.start < Len(sents)
        THEN [st EXCEPT !.chunks = Append(st.chunks,
                            make_chunk(PyTail(sents, st.start), Len(st.chunks),
                                       args.document_name, args.filename,
                                       args.file_extension))]
        ELSE st

\* the fixed-size loop stepping by split_length, the overlap ignored
RECURSIVE fixed_loop_without_overlap(_, _, _, _)
fixed_loop_without_overlap(sents, args, i, chunks) ==
    IF ~(i < Len(sents))
    THEN chunks
    ELSE LET chunk_sentences == PySlice(sents, i, i + args.split_length)
         IN  IF chunk_sentences = <<>>
             THEN chunks
             ELSE fixed_loop_without_overlap(sents, args, i + args.split_length,
                    Append(chunks,
                        make_chunk(chunk_sentences, Len(chunks), args.document_name,
                                   args.filename, args.file_extension)))

\* the fixed-size branch of create_chunks_with_pages: "while i < len(...)"
\* from position i on
RECURSIVE fixed_loop(_, _, _, _)
fixed_loop(sents, args, i, chunks) ==
    IF ~(i < Len(sents))
    THEN chunks
    ELSE LET chunk_sentences == PySlice(sents, i, i + args.split_length)
         IN  IF chunk_sentences = <<>>
             THEN chunks
             ELSE fixed_loop(sents, args, i + args.split_length - args.split_overlap,
                    Append(chunks,
                        make_chunk(chunk_sentences, Len(chunks), args.document_name,
                                   args.filename, args.file_extension)))

fixed_chunks(sents, args) == fixed_loop(sents, args, 0, <<>>)

\* parse_text_haystack.create_chunks_with_pages: the same loop, the chunk dict
\* holding the text, document_name and page_numbers only
RECURSIVE haystack_loop(_, _, _, _)
haystack_loop(sents, args, i, chunks) ==
    IF ~(i < Len(sents))
    THEN chunks
    ELSE LET chunk_sentences == PySlice(sents, i, i + args.split_length)
         IN  IF chunk_sentences = <<>>
             THEN chunks
             ELSE haystack_loop(sents, args, i + args.split_length - args.split_overlap,
                    Append(chunks,
                        [text |-> [k \in 1..Len(chunk_sentences) |->
                                        chunk_sentences[k].text],
                         metadata |->
                            [document_name |-> args.document_name,
                             page_numbers |->
                                page_numbers_of([k \in 1..Len(chunk_sentences) |->
                                                    chunk_sentences[k].page_number])]]))

haystack_chunks(sents, args) == haystack_loop(sents, args, 0, <<>>)

----------------------------------------------------------------------------
(* SpecChunk: the two chunking functions applied to bounded inputs.        *)

IdlePipe ==
    /\ files = <<>>
    /\ run_args = [use_semantic_chunking |-> FALSE]
    /\ task = <<>>
    /\ index = {}
    /\ next_uuid = 0
    /\ embed_calls = <<>>
    /\ upsert_calls = <<>>
    /\ results = <<>>

IdleChunk ==
    /\ sentences_with_pages = <<>>
    /\ precomputed_embeddings = <<>>
    /\ chunk_args = [use_semantic |-> FALSE]
    /\ chunk_ret = [status |-> "idle", chunks |-> <<>>]

IdleRerank ==
    /\ documents = <<>>
    /\ top_n = 0
    /\ provider_reply = [raised |-> FALSE, results |-> <<>>]
    /\ rerank_ret = [status |-> "idle", items |-> <<>>]

IdleQuery ==
    /\ qdrant_points = <<>>
    /\ query_ret = [status |-> "idle"]

IdleChat ==
    /\ conversations = <<>>
    /\ chat_ret = [requests |-> 0, status |-> 0]

IdleCite ==
    /\ crawled_content = <<>>
    /\ citation_args = [top_k |-> 0]
    /\ citations_ret = [status |-> "idle"]

IdleSnippet ==
    /\ snippet_text = <<>>
    /\ snippet_ret = [status |-> "idle"]

IdleClient ==
    /\ embed_request = [function |-> "None"]
    /\ embed_ret = [status |-> "idle"]

IdleUpload ==
    /\ upload_request = [files |-> <<>>]
    /\ upload_ret = [status |-> 0]

IdleRechunk ==
    /\ chunker_self = [embedding_service |-> [calls |-> 0]]
    /\ chunker_runs = [calls |-> 0, returned |-> <<>>]

IdleClean ==
    /\ chunk_metadata = <<>>
    /\ clean_ret = [status |-> "idle"]

IdleGov ==
    /\ gov_request = [query |-> <<>>]
    /\ gov_call = [pc |-> "idle"]
    /\ gov_searches = <<>>

IdleChunkText ==
    /\ chunk_text_input = [text |-> <<>>]
    /\ chunk_text_state = [pc |-> "idle"]

IdleHandlers ==
    /\ handlers = <<>>
    /\ handled = 0

IdleLate ==
    /\ IdleRechunk
    /\ IdleClean
    /\ IdleGov
    /\ IdleChunkText
    /\ IdleHandlers

IdleService ==
    /\ IdleQuery
    /\ IdleChat
    /\ IdleCite
    /\ IdleSnippet
    /\ IdleClient
    /\ IdleUpload
    /\ IdleLate

\* sentence lists: the text of a sentence is its position, its page any page
SentenceLists ==
    UNION {{[k \in 1..n |-> [text |-> k, page_number |-> pages[k]]] :
                pages \in [1..n -> 1..MaxPage]} : n \in 0..MaxSentences}

\* embedding lists for n sentences: one vector per sentence, or one too few
EmbeddingLists(n) ==
    UNION {[1..k -> Embeddings] : k \in {n, n - 1} \cap Nat}

SemanticArgs ==
    [use_semantic : {TRUE},
     document_name : {"doc"}, filename : {"None"}, file_extension : {"pdf"},
     similarity_threshold : {similarity_threshold},
     min_chunk_size : 1..MaxChunkParam,
     max_chunk_size : 1..MaxChunkParam,
     buffer_size : 0..MaxChunkParam]

FixedArgs ==
    {a \in [use_semantic : {FALSE},
            document_name : {"doc"}, filename : {"None"}, file_extension : {"pdf"},
            split_length : 1..MaxChunkParam,
            split_overlap : 0..MaxChunkParam] : a.split_overlap < a.split_length}

ChunkInit ==
    /\ phase = "chunk"
    /\ sentences_with_pages \in SentenceLists
    /\ chunk_args \in SemanticArgs \cup FixedArgs
    /\ precomputed_embeddings \in
            IF chunk_args.use_semantic
            THEN EmbeddingLists(Len(sentences_with_pages))
            ELSE {<<>>}
    /\ chunk_ret = [status |-> "pending", chunks |-> <<>>]
    /\ IdlePipe
    /\ IdleRerank
    /\ IdleService

\* create_semantic_chunks_with_pages(sentences_with_pages, ...,
\*     precomputed_embeddings=precomputed_embeddings); the embedding provider
\* call for the chunk texts returns or raises
create_semantic_chunks_with_pages ==
    /\ phase = "chunk"
    /\ chunk_ret.status = "pending"
    /\ chunk_args.use_semantic
    /\ IF sentences_with_pages = <<>>
       THEN chunk_ret' = [status |-> "returned", chunks |-> <<>>]
       ELSE LET st == semantic_chunks(sentences_with_pages, precomputed_embeddings,
                                      chunk_args)
            IN  IF st.raised
                THEN chunk_ret' = [status |-> "raised", chunks |-> <<>>]
                ELSE \E provider_ok \in BOOLEAN :
                        chunk_ret' = IF provider_ok
                                     THEN [status |-> "returned", chunks |-> st.chunks]
                                     ELSE [status |-> "raised", chunks |-> <<>>]
    /\ UNCHANGED <<phase, sentences_with_pages, precomputed_embeddings, chunk_args>>
    /\ UNCHANGED pipeVars
    /\ UNCHANGED rerankVars
    /\ UNCHANGED serviceVars

\* create_chunks_with_pages(sentences_with_pages, ..., use_semantic=False)
create_chunks_with_pages ==
    /\ phase = "chunk"
    /\ chunk_ret.status = "pending"
    /\ ~chunk_args.use_semantic
    /\ chunk_ret' = [status |-> "returned",
                     chunks |-> fixed_chunks(sentences_with_pages, chunk_args)]
    /\ UNCHANGED <<phase, sentences_with_pages, precomputed_embeddings, chunk_args>>
    /\ UNCHANGED pipeVars
    /\ UNCHANGED rerankVars
    /\ UNCHANGED serviceVars

\* parse_text_haystack.create_chunks_with_pages(sentences_with_pages,
\*     document_name, split_length, split_overlap)
haystack_create_chunks_with_pages ==
    /\ phase = "chunk"
    /\ chunk_ret.status = "pending"
    /\ ~chunk_args.use_semantic
    /\ chunk_ret' = [status |-> "returned_haystack",
                     chunks |-> haystack_chunks(sentences_with_pages, chunk_args)]
    /\ UNCHANGED <<phase, sentences_with_pages, precomputed_embeddings, chunk_args>>
    /\ UNCHANGED pipeVars
    /\ UNCHANGED rerankVars
    /\ UNCHANGED serviceVars

ChunkNext ==
    \/ create_semantic_chunks_with_pages
    \/ create_chunks_with_pages
    \/ haystack_create_chunks_with_pages

SpecChunk == ChunkInit /\ [][ChunkNext]_vars

----------------------------------------------------------------------------
(* The ingestion pipeline: process_files_parallel and process_single_file. *)

\* os.path.splitext on the file names of the model
splitext(filename) ==
    CASE filename = "a.pdf" -> <<"a", ".pdf">>
      [] filename = "a (geanonimiseerd).pdf" -> <<"a (geanonimiseerd)", ".pdf">>
      [] filename = "b.txt" -> <<"b", ".txt">>

\* .replace(' (geanonimiseerd)', '').replace('(geanonimiseerd)', '')
remove_markers(name) == IF name = "a (geanonimiseerd)" THEN "a" ELSE name

\* ext.lstrip('.') if ext else None
lstrip_dot(ext) ==
    CASE ext = ".pdf" -> "pdf"
      [] ext = ".txt" -> "txt"
      [] OTHER -> "None"

\* batch size of the embedding calls inside create_semantic_chunks_with_pages
embedding_batch_size == 100

\* get_embeddings losing the last item of the response
get_embeddings_short(texts) == [k \in 1..(Len(texts) - 1) |-> k]

\* EmbeddingService.get_embeddings on a successful provider response: one
\* vector per input text, in input order; the vector of text k is the token k
get_embeddings(texts) == [k \in 1..Len(texts) |-> k]

\* zip(xs, ys) as the number of pairs it yields
ZipLen(xs, ys) == Min(Len(xs), Len(ys))

\* lines 404-437 of process_single_file: the document dict of one chunk
prepare_document(chunk) ==
    LET metadata == chunk.metadata
    IN  [text |-> chunk.text,
         document_name |-> metadata.document_name,
         page_numbers |-> [k \in 1..Len(metadata.page_numbers) |->
                                ToString(metadata.page_numbers[k])],
         page_start |-> IF metadata.page_start = NoneInt THEN 0 ELSE metadata.page_start,
         page_end |-> IF metadata.page_end = NoneInt THEN 0 ELSE metadata.page_end,
         chunk_index |-> metadata.chunk_index,
         num_sentences |-> metadata.num_sentences,
         filename |-> metadata.filename,
         file_extension |-> IF metadata.file_extension = "None"
                            THEN "" ELSE metadata.file_extension]

\* lines 399-439: documents and vectors, paired by zip(chunks, embeddings)
prepare_documents(chunks, embeddings) ==
    [k \in 1..ZipLen(chunks, embeddings) |->
        [doc |-> prepare_document(chunks[k]), vector |-> embeddings[k]]]

\* an id generator that repeats its values
uuid4_repeating(n) == (n % 2) + 1

\* str(uuid.uuid4()): the n-th value drawn differs from all drawn before
uuid4(n) == n + 1

\* PineconeRAGClient.upsert_documents: vectors_to_upsert for one batch, given
\* the number of ids drawn so far
vectors_to_upsert(batch, drawn) ==
    {[id |-> uuid4(drawn + k - 1), values |-> batch[k].vector, metadata |-> batch[k].doc] :
        k \in 1..Len(batch)}

\* index.upsert: insert, or overwrite the record with the same id
index_upsert(idx, vectors) ==
    {r \in idx : \A v \in vectors : v.id # r.id} \cup vectors

\* the sentences extracted from file f: the text of a sentence is its position
sentences_of(file) ==
    [k \in 1..Len(file.pages) |-> [text |-> k, page_number |-> file.pages[k]]]

\* keyword arguments process_single_file passes to create_chunks_with_pages
chunking_args(filename) ==
    [document_name |-> remove_markers(splitext(filename)[1]),
     filename |-> filename,
     file_extension |-> lstrip_dot(splitext(filename)[2]),
     split_length |-> run_args.split_length,
     split_overlap |-> run_args.split_overlap,
     similarity_threshold |-> similarity_threshold,
     min_chunk_size |-> default_min_chunk_size,
     max_chunk_size |-> default_max_chunk_size,
     buffer_size |-> default_buffer_size]

failure(filename, error) ==
    [success |-> FALSE, filename |-> filename, error |-> error]

success(filename, chunks, vectors) ==
    [success |-> TRUE, filename |-> filename,
     document_name |-> remove_markers(splitext(filename)[1]),
     chunks_count |-> Len(chunks), vectors_uploaded |-> Len(vectors)]

NoResult == [success |-> FALSE, filename |-> "", error |-> "pending"]

Files == DOMAIN files

Running == {f \in Files : task[f].pc \in {"extract", "embed_sentences", "embed_chunks", "upsert"}}

Finish(f, result) ==
    task' = [task EXCEPT ![f].pc = "done", ![f].result = result]

\* ThreadPoolExecutor: a free worker takes the next submitted task
Start(f) ==
    /\ phase = "pipeline"
    /\ task[f].pc = "queued"
    /\ \A g \in Files : g < f => task[g].pc # "queued"
    /\ Cardinality(Running) < run_args.max_workers
    /\ task' = [task EXCEPT ![f].pc = "extract"]
    /\ UNCHANGED <<phase, files, run_args, index, next_uuid, embed_calls, upsert_calls, results>>
    /\ UNCHANGED chunkVars
    /\ UNCHANGED rerankVars
    /\ UNCHANGED serviceVars

\* results.append(result) reached only for a successful file
append_result_successes_only(rs, result) ==
    IF result.success THEN Append(rs, result) ELSE rs

\* results.append(result) for a completed future
append_result(rs, result) == Append(rs, result)


\* "if not chunks" after create_chunks_with_pages returned
no_chunks_check_skipped(chunks) == FALSE

no_chunks(chunks) == chunks = <<>>

\* the rest of process_single_file once chunks and embeddings are known:
\* build documents and vectors, then enter the upload loop (which has no
\* iteration, and the call succeeds, when there is no document)
AfterEmbeddings(f, chunks, embeddings) ==
    LET docs == prepare_documents(chunks, embeddings)
    IN  IF docs = <<>>
        THEN task' = [task EXCEPT ![f].pc = "done", ![f].chunks = chunks,
                                  ![f].docs = docs,
                                  ![f].result = success(files[f].filename, chunks, docs)]
        ELSE task' = [task EXCEPT ![f].pc = "upsert", ![f].chunks = chunks,
                                  ![f].docs = docs, ![f].i = 0]

\* create_chunks_with_pages asking for sentence embeddings in either mode
ChunkAfterExtract_embedding_first(f, sents) ==
    IF sents = <<>>
    THEN Finish(f, failure(files[f].filename, "No chunks created"))
    ELSE task' = [task EXCEPT ![f].pc = "embed_sentences", ![f].off = 0,
                              ![f].all_embeddings = <<>>]

\* create_chunks_with_pages up to its first provider call, and the check
\* "if not chunks" when it returns without one
ChunkAfterExtract(f, sents) ==
    IF run_args.use_semantic_chunking
    THEN IF sents = <<>>
         THEN IF no_chunks(<<>>)
              THEN Finish(f, failure(files[f].filename, "No chunks created"))
              ELSE AfterEmbeddings(f, <<>>, <<>>)
         ELSE task' = [task EXCEPT ![f].pc = "embed_sentences", ![f].off = 0,
                                   ![f].all_embeddings = <<>>]
    ELSE LET chunks == fixed_chunks(sents, chunking_args(files[f].filename))
         IN  IF no_chunks(chunks)
             THEN Finish(f, failure(files[f].filename, "No chunks created"))
             ELSE task' = [task EXCEPT ![f].pc = "embed_chunks", ![f].off = 0,
                                       ![f].chunks = chunks, ![f].chunk_embeddings = <<>>]

\* process_single_file from its start to the end of text extraction and, in
\* fixed-size mode, of chunk creation
Extract(f) ==
    /\ phase = "pipeline"
    /\ task[f].pc = "extract"
    /\ LET file == files[f]
           ext == splitext(file.filename)[2]
           sents == sentences_of(file)
       IN  \/ Finish(f, failure(file.filename, "extraction raised"))
           \/ IF ext = ".pdf"
              THEN IF sents = <<>>
                   THEN Finish(f, failure(file.filename, "No text extracted from PDF"))
                   ELSE ChunkAfterExtract(f, sents)
              ELSE IF ~file.text_nonempty
                   THEN Finish(f, failure(file.filename, "No text extracted"))
                   ELSE ChunkAfterExtract(f, sents)
    /\ UNCHANGED <<phase, files, run_args, index, next_uuid, embed_calls, upsert_calls, results>>
    /\ UNCHANGED chunkVars
    /\ UNCHANGED rerankVars
    /\ UNCHANGED serviceVars

\* one get_embeddings call of the sentence batches (lines 139-142); after the
\* last batch the split loop runs (lines 146-218)
EmbedSentences(f) ==
    /\ phase = "pipeline"
    /\ task[f].pc = "embed_sentences"
    /\ embed_calls' = [embed_calls EXCEPT ![f] = @ + 1]
    /\ LET sents == sentences_of(files[f])
           off == task[f].off
           batch == PySlice(sents, off, off + embedding_batch_size)
       IN  \/ Finish(f, failure(files[f].filename, "embedding raised"))
           \/ \E batch_embeddings \in [1..Len(batch) -> Embeddings] :
                LET all_embeddings == task[f].all_embeddings \o batch_embeddings
                IN  IF off + embedding_batch_size < Len(sents)
                    THEN task' = [task EXCEPT ![f].off = off + embedding_batch_size,
                                              ![f].all_embeddings = all_embeddings]
                    ELSE task' = [task EXCEPT
                            ![f].pc = "embed_chunks", ![f].off = 0,
                            ![f].all_embeddings = <<>>,
                            ![f].chunks = semantic_chunks(sents, all_embeddings,
                                            chunking_args(files[f].filename)).chunks,
                            ![f].chunk_embeddings = <<>>]
    /\ UNCHANGED <<phase, files, run_args, index, next_uuid, upsert_calls, results>>
    /\ UNCHANGED chunkVars
    /\ UNCHANGED rerankVars
    /\ UNCHANGED serviceVars

\* one get_embeddings call for chunk texts: a batch of the loop at lines
\* 227-230 (semantic) or the single call at line 396 (fixed-size)
EmbedChunks(f) ==
    /\ phase = "pipeline"
    /\ task[f].pc = "embed_chunks"
    /\ embed_calls' = [embed_calls EXCEPT ![f] = @ + 1]
    /\ LET chunks == task[f].chunks
           off == task[f].off
           stop == IF run_args.use_semantic_chunking
                   THEN off + embedding_batch_size
                   ELSE Len(chunks)
           batch == PySlice(chunks, off, stop)
       IN  \/ Finish(f, failure(files[f].filename, "embedding raised"))
           \/ LET embeddings == task[f].chunk_embeddings \o get_embeddings(batch)
              IN  IF stop < Len(chunks)
                  THEN task' = [task EXCEPT ![f].off = stop,
                                            ![f].chunk_embeddings = embeddings]
                  ELSE IF run_args.use_semantic_chunking /\ no_chunks(chunks)
                  THEN Finish(f, failure(files[f].filename, "No chunks created"))
                  ELSE AfterEmbeddings(f, chunks, embeddings)
    /\ UNCHANGED <<phase, files, run_args, index, next_uuid, upsert_calls, results>>
    /\ UNCHANGED chunkVars
    /\ UNCHANGED rerankVars
    /\ UNCHANGED serviceVars

\* upsert_documents raised for the batch at offset i, and the loop goes on
\* with the next batch
upsert_raised_continue(f, i) ==
    /\ IF i + run_args.batch_size < Len(task[f].docs)
       THEN task' = [task EXCEPT ![f].i = i + run_args.batch_size]
       ELSE Finish(f, failure(files[f].filename, "upsert raised"))
    /\ UNCHANGED <<index, next_uuid>>

\* upsert_documents raised for the batch at offset i, and the records of the
\* file are deleted again
upsert_raised_rollback(f, i) ==
    /\ Finish(f, failure(files[f].filename, "upsert raised"))
    /\ index' = {r \in index : r.metadata.filename # files[f].filename}
    /\ UNCHANGED next_uuid

\* upsert_documents raised for the batch at offset i: the exception leaves
\* the loop and reaches the handler of process_single_file (lines 458-464)
upsert_raised(f, i) ==
    /\ Finish(f, failure(files[f].filename, "upsert raised"))
    /\ UNCHANGED <<index, next_uuid>>

\* one iteration of the upload loop (lines 443-446) with the whole of
\* PineconeRAGClient.upsert_documents; after the last batch the call returns
UpsertBatch(f) ==
    /\ phase = "pipeline"
    /\ task[f].pc = "upsert"
    /\ LET docs == task[f].docs
           i == task[f].i
           batch == PySlice(docs, i, i + run_args.batch_size)
       IN  \/ /\ upsert_calls' = [upsert_calls EXCEPT ![f] = Append(@, [offset |-> i, ok |-> FALSE])]
              /\ upsert_raised(f, i)
           \/ /\ upsert_calls' = [upsert_calls EXCEPT ![f] = Append(@, [offset |-> i, ok |-> TRUE])]
              /\ index' = index_upsert(index, vectors_to_upsert(batch, next_uuid))
              /\ next_uuid' = next_uuid + Len(batch)
              /\ IF i + run_args.batch_size < Len(docs)
                 THEN task' = [task EXCEPT ![f].i = i + run_args.batch_size]
                 ELSE Finish(f, success(files[f].filename, task[f].chunks, docs))
    /\ UNCHANGED <<phase, files, run_args, embed_calls, results>>
    /\ UNCHANGED chunkVars
    /\ UNCHANGED rerankVars
    /\ UNCHANGED serviceVars

\* as_completed yields a finished future and its result is appended
Collect(f) ==
    /\ phase = "pipeline"
    /\ task[f].pc = "done"
    /\ results' = append_result(results, task[f].result)
    /\ task' = [task EXCEPT ![f].pc = "collected"]
    /\ UNCHANGED <<phase, files, run_args, index, next_uuid, embed_calls, upsert_calls>>
    /\ UNCHANGED chunkVars
    /\ UNCHANGED rerankVars
    /\ UNCHANGED serviceVars

PipeNext ==
    \/ \E f \in Files : Start(f)
    \/ \E f \in Files : Extract(f)
    \/ \E f \in Files : EmbedSentences(f)
    \/ \E f \in Files : EmbedChunks(f)
    \/ \E f \in Files : UpsertBatch(f)
    \/ \E f \in Files : Collect(f)

NewTask ==
    [pc |-> "queued", off |-> 0, all_embeddings |-> <<>>, chunks |-> <<>>,
     chunk_embeddings |-> <<>>, docs |-> <<>>, i |-> 0, result |-> NoResult]

\* page numbers of the sentences of a PDF, in page order
RECURSIVE NonDecreasingSeqs(_, _)
NonDecreasingSeqs(n, lo) ==
    IF n = 0
    THEN {<<>>}
    ELSE UNION {{<<p>> \o rest : rest \in NonDecreasingSeqs(n - 1, p)} : p \in lo..MaxPage}

\* what extraction yields for a file: a PDF has sentences on increasing
\* pages, any other file has all its sentences on page 1
FileContents ==
    UNION {[filename : {"a.pdf", "a (geanonimiseerd).pdf"},
            text_nonempty : {n > 0},
            pages : NonDecreasingSeqs(n, 1)] : n \in 0..MaxFileSentences}
    \cup
    {c \in [filename : {"b.txt"}, text_nonempty : BOOLEAN,
            pages : {[k \in 1..n |-> 1] : n \in 0..MaxFileSentences}] :
        c.pages # <<>> => c.text_nonempty}

RunArgs(workers) ==
    {a \in [max_workers : workers,
            split_length : 1..MaxChunkParam,
            split_overlap : 0..MaxChunkParam,
            batch_size : 1..MaxBatchSize,
            use_semantic_chunking : BOOLEAN] : a.split_overlap < a.split_length}

PipeInitWith(fs, args) ==
    /\ phase = "pipeline"
    /\ files = fs
    /\ run_args = args
    /\ task = [f \in DOMAIN fs |-> NewTask]
    /\ index = {}
    /\ next_uuid = 0
    /\ embed_calls = [f \in DOMAIN fs |-> 0]
    /\ upsert_calls = [f \in DOMAIN fs |-> <<>>]
    /\ results = <<>>
    /\ IdleChunk
    /\ IdleRerank
    /\ IdleService

\* one file, any content and any configuration
PipelineInit ==
    \E file \in FileContents : \E args \in RunArgs({1}) :
        PipeInitWith(<<file>>, args)

SpecPipeline == PipelineInit /\ [][PipeNext]_vars

\* several files submitted at once; the contents cover an empty PDF, a PDF of
\* two pages and a text file, chunked one sentence per chunk or semantically
ParallelContents ==
    {[filename |-> "a.pdf", text_nonempty |-> FALSE, pages |-> <<>>],
     [filename |-> "a.pdf", text_nonempty |-> TRUE, pages |-> <<1, 2>>],
     [filename |-> "b.txt", text_nonempty |-> TRUE, pages |-> <<1>>]}

ParallelArgs ==
    [max_workers : 1..NumFiles, split_length : {1}, split_overlap : {0},
     batch_size : {1}, use_semantic_chunking : BOOLEAN]

ParallelInit ==
    \E fs \in [1..NumFiles -> ParallelContents] : \E args \in ParallelArgs :
        PipeInitWith(fs, args)

SpecParallel == ParallelInit /\ [][PipeNext]_vars

----------------------------------------------------------------------------
(* Properties of the chunking functions.                                   *)

Returned == phase = "chunk" /\ chunk_ret.status = "returned"

NumSentences == Len(sentences_with_pages)

\* the sentences of chunk c, recovered from its text
ChunkPages(c) ==
    {sentences_with_pages[c.text[k]].page_number : k \in 1..Len(c.text)}

StrictlyIncreasing(seq) == \A k \in 1..(Len(seq) - 1) : seq[k] < seq[k + 1]

\* C1: no chunk returned by create_semantic_chunks_with_pages has more than
\* max_chunk_size sentences, the final flushed chunk included.
C1_MaxChunkSize ==
    (Returned /\ chunk_args.use_semantic) =>
        \A k \in 1..Len(chunk_ret.chunks) :
            chunk_ret.chunks[k].metadata.num_sentences <= chunk_args.max_chunk_size

\* a forced split and a final flush both happened, and a chunk is full
C1_Witness ==
    /\ Returned /\ chunk_args.use_semantic
    /\ Len(chunk_ret.chunks) >= 2
    /\ chunk_ret.chunks[Len(chunk_ret.chunks)].metadata.num_sentences
            = chunk_args.max_chunk_size
    /\ chunk_args.max_chunk_size < chunk_args.min_chunk_size

\* C2: with 1 <= min_chunk_size <= max_chunk_size the number of chunks is 0
\* exactly when there is no sentence, and otherwise lies between
\* ceil(n / max_chunk_size) and ceil(n / min_chunk_size).
C2_ChunkCount ==
    (Returned /\ chunk_args.use_semantic
        /\ chunk_args.min_chunk_size <= chunk_args.max_chunk_size) =>
        LET k == Len(chunk_ret.chunks)
        IN  /\ (k = 0) <=> (NumSentences = 0)
            /\ NumSentences > 0 =>
                /\ CeilDiv(NumSentences, chunk_args.max_chunk_size) <= k
                /\ k <= CeilDiv(NumSentences, chunk_args.min_chunk_size)

\* both ends of the range are strictly between 1 and n, and the upper end is met
C2_Witness ==
    /\ Returned /\ chunk_args.use_semantic
    /\ chunk_args.min_chunk_size < chunk_args.max_chunk_size
    /\ NumSentences > chunk_args.max_chunk_size
    /\ Len(chunk_ret.chunks) = CeilDiv(NumSentences, chunk_args.min_chunk_size)
    /\ Len(chunk_ret.chunks) > CeilDiv(NumSentences, chunk_args.max_chunk_size)

\* C3: in either mode every chunk's page_numbers is non-empty, strictly
\* increasing, and is exactly the set of pages of the chunk's sentences;
\* page_start and page_end are its minimum and maximum.
C3_PageNumbers ==
    Returned =>
        \A k \in 1..Len(chunk_ret.chunks) :
            LET c == chunk_ret.chunks[k]
                pn == c.metadata.page_numbers
            IN  /\ pn # <<>>
                /\ StrictlyIncreasing(pn)
                /\ {pn[j] : j \in 1..Len(pn)} = ChunkPages(c)
                /\ c.metadata.page_start = pn[1]
                /\ c.metadata.page_end = pn[Len(pn)]
                /\ \A p \in ChunkPages(c) :
                        c.metadata.page_start <= p /\ p <= c.metadata.page_end

\* a chunk whose sentences come in decreasing page order, so that sorting
\* reorders them
C3_Witness ==
    /\ Returned
    /\ \E k \in 1..Len(chunk_ret.chunks) :
        LET c == chunk_ret.chunks[k]
        IN  /\ Len(c.metadata.page_numbers) >= 2
            /\ sentences_with_pages[c.text[1]].page_number
                    > sentences_with_pages[c.text[Len(c.text)]].page_number

----------------------------------------------------------------------------
(* Properties of the ingestion pipeline.                                   *)

Returned_(f) == task[f].pc \in {"done", "collected"}

\* the offsets of the upload loop of file f
BatchOffsets(f) ==
    {i \in 0..Len(task[f].docs) :
        i < Len(task[f].docs) /\ i % run_args.batch_size = 0}

SentOffsets(f) == {upsert_calls[f][k].offset : k \in 1..Len(upsert_calls[f])}

FailedCall(f) == \E k \in 1..Len(upsert_calls[f]) : ~upsert_calls[f][k].ok

RecordsOf(f) == {r \in index : r.metadata.filename = files[f].filename}

\* C4: process_files_parallel returns one result per submitted file, each
\* with that file's own filename, in every interleaving and whichever files
\* fail; a failed file has success = false and an error message.
C4_OneResultPerFile ==
    phase = "pipeline" =>
        /\ Len(results) = Cardinality({f \in Files : task[f].pc = "collected"})
        /\ \E owner \in [1..Len(results) -> Files] :
                /\ \A j, k \in 1..Len(results) : owner[j] = owner[k] => j = k
                /\ \A k \in 1..Len(results) :
                        /\ task[owner[k]].pc = "collected"
                        /\ results[k] = task[owner[k]].result
                        /\ results[k].filename = files[owner[k]].filename
        /\ \A k \in 1..Len(results) :
                ~results[k].success => "error" \in DOMAIN results[k]
        /\ (\A f \in Files : task[f].pc = "collected") => Len(results) = Len(files)

\* all files collected, a failed file among them and a later-submitted and a
\* earlier-submitted successful one, collected out of submission order
C4_Witness ==
    /\ phase = "pipeline"
    /\ Len(files) >= 2
    /\ \A f \in Files : task[f].pc = "collected"
    /\ \E j, k \in 1..Len(results) :
            /\ ~results[j].success
            /\ results[k].success
    /\ results[1].filename = files[Len(files)].filename
    /\ results[1].filename # files[1].filename

C6_NoRollback ==
    \A f \in Files :
        (phase = "pipeline" /\ Returned_(f) /\ FailedCall(f)) =>
            /\ \A k \in 1..Len(upsert_calls[f]) :
                    upsert_calls[f][k].ok =>
                        \A d \in (upsert_calls[f][k].offset + 1)..
                                 Min(upsert_calls[f][k].offset + run_args.batch_size,
                                     Len(task[f].docs)) :
                            \E r \in index : r.metadata = task[f].docs[d].doc
            /\ Cardinality(RecordsOf(f)) >=
                    Min((Len(upsert_calls[f]) - 1) * run_args.batch_size,
                        Len(task[f].docs))
            /\ ~task[f].result.success
            /\ DOMAIN task[f].result = {"success", "filename", "error"}

\* a batch was upserted, the next one failed, and the file reports failure
C6_Witness ==
    \E f \in Files :
        /\ phase = "pipeline" /\ Returned_(f)
        /\ Len(upsert_calls[f]) >= 2
        /\ upsert_calls[f][1].ok
        /\ ~upsert_calls[f][Len(upsert_calls[f])].ok
        /\ RecordsOf(f) # {}

C8_NoSentences ==
    \A f \in Files :
        (phase = "pipeline" /\ Len(files) = 1 /\ files[f].pages = <<>>) =>
            /\ embed_calls[f] = 0
            /\ upsert_calls[f] = <<>>
            /\ index = {}
            /\ Returned_(f) =>
                    /\ ~task[f].result.success
                    /\ "error" \in DOMAIN task[f].result

\* a text file with non-empty text and no sentence has returned
C8_Witness ==
    \E f \in Files :
        /\ phase = "pipeline" /\ Len(files) = 1 /\ Returned_(f)
        /\ files[f].pages = <<>>
        /\ files[f].text_nonempty
        /\ task[f].result.error = "No chunks created"

----------------------------------------------------------------------------
(* CohereReranker.rerank.                                                  *)

\* candidate documents: dicts with text and metadata
DocPool ==
    {[text |-> "t1", metadata |-> [source |-> "s1"]],
     [text |-> "t2", metadata |-> [source |-> "s2"]]}

\* results of a provider response: any index, in range or not
ProviderResults ==
    SeqsUpTo([index : (0 - MaxDocs - 1)..MaxDocs, relevance_score : {10, 90}],
             MaxResults)

\* seq[idx] does not raise IndexError: Python accepts -len(seq) <= idx < len(seq)
index_ok(seq, idx) == 0 - Len(seq) <= idx /\ idx < Len(seq)

\* seq[idx], a negative idx counting from the end
py_index(seq, idx) == IF idx >= 0 THEN seq[idx + 1] ELSE seq[Len(seq) + idx + 1]

\* the dict appended to reranked_docs for one result (lines 56-61)
reranked_doc(docs, result) ==
    [score |-> result.relevance_score,
     metadata |-> py_index(docs, result.index).metadata,
     index |-> result.index]

\* the except branch: documents[:top_n]
fallback(docs, n) == PySlice(docs, 0, n)

RerankInit ==
    /\ phase = "rerank"
    /\ documents \in SeqsUpTo(DocPool, MaxDocs)
    /\ top_n \in 0..MaxTopN
    /\ provider_reply = [raised |-> FALSE, results |-> <<>>]
    /\ rerank_ret = [status |-> "pending", items |-> <<>>]
    /\ IdleChunk
    /\ IdlePipe
    /\ IdleService

\* rerank when self.client.rerank raises (timeout, quota, ...)
RerankProviderRaises ==
    /\ phase = "rerank"
    /\ rerank_ret.status = "pending"
    /\ provider_reply' = [raised |-> TRUE, results |-> <<>>]
    /\ rerank_ret' = [status |-> "returned", items |-> fallback(documents, top_n)]
    /\ UNCHANGED <<phase, documents, top_n>>
    /\ UNCHANGED chunkVars
    /\ UNCHANGED pipeVars
    /\ UNCHANGED serviceVars

\* rerank when self.client.rerank returns a response: the loop over
\* results.results either completes or raises IndexError into the except branch
RerankProviderResponds ==
    /\ phase = "rerank"
    /\ rerank_ret.status = "pending"
    /\ \E response \in ProviderResults :
        /\ provider_reply' = [raised |-> FALSE, results |-> response]
        /\ IF \A k \in 1..Len(response) : index_ok(documents, response[k].index)
           THEN rerank_ret' =
                    [status |-> "returned",
                     items |-> [k \in 1..Len(response) |->
                                    reranked_doc(documents, response[k])]]
           ELSE rerank_ret' =
                    [status |-> "returned", items |-> fallback(documents, top_n)]
    /\ UNCHANGED <<phase, documents, top_n>>
    /\ UNCHANGED chunkVars
    /\ UNCHANGED pipeVars
    /\ UNCHANGED serviceVars

RerankNext ==
    \/ RerankProviderRaises
    \/ RerankProviderResponds

SpecRerank == RerankInit /\ [][RerankNext]_vars

----------------------------------------------------------------------------
(* Properties of the reranker.                                             *)

RerankReturned == phase = "rerank" /\ rerank_ret.status = "returned"

\* the provider call failed: it raised, or its response names a position
\* that is not one of 0 .. len(documents) - 1
ProviderFailed ==
    \/ provider_reply.raised
    \/ \E k \in 1..Len(provider_reply.results) :
            provider_reply.results[k].index \notin 0..(Len(documents) - 1)

\* C9: when the provider call fails (exception or malformed response such as
\* an out-of-range index), rerank returns the first min(top_n, len(documents))
\* input documents in their original order.
C9_FallbackOnFailure ==
    (RerankReturned /\ ProviderFailed) =>
        rerank_ret.items = SubSeq(documents, 1, Min(top_n, Len(documents)))

\* C10: every item rerank returns, on either path, has the fields score,
\* metadata and index, index is a position of the input list and metadata is
\* that of documents[index].
C10_ItemShape ==
    RerankReturned =>
        \A k \in 1..Len(rerank_ret.items) :
            LET item == rerank_ret.items[k]
            IN  /\ DOMAIN item = {"score", "metadata", "index"}
                /\ item.index \in 0..(Len(documents) - 1)
                /\ item.metadata = documents[item.index + 1].metadata

----------------------------------------------------------------------------
(* SpecQuery: RAGService.index_document and RAGService.query.              *)
(* A chunk text is a token; EmbeddingService.embed_text maps each token to *)
(* its vector.  The user query is the token "q".                           *)

ChunkTexts == {"t1", "t2"}

\* EmbeddingService.embed_text on a successful provider response
embed_text(text) ==
    CASE text = "q" -> <<1, 0>>
      [] text = "t1" -> <<1, 0>>
      [] text = "t2" -> <<3, 4>>

\* EmbeddingService.embed_batch on a successful provider response
embed_batch(texts) == [k \in 1..Len(texts) |-> embed_text(texts[k])]

\* filters of query: None, or a dict given as its set of (key, value) items
Filters == {{}, {<<"filename", "a.pdf">>}, {<<"filename", "b.txt">>}}

\* the points index_document builds for one document: doc_id is the first
\* uuid4 drawn, the point of chunk i gets the next one; **metadata comes last
\* in the payload
index_document_points(chunks, metadata, drawn) ==
    LET doc_id == uuid4(drawn)
        embeddings == embed_batch(chunks)
    IN  [k \in 1..ZipLen(chunks, embeddings) |->
            [id |-> uuid4(drawn + k),
             vector |-> embeddings[k],
             payload |-> [text |-> chunks[k],
                          doc_id |-> doc_id,
                          chunk_index |-> k - 1,
                          filename |-> metadata.filename]]]

\* qdrant_client.upsert: insert, or overwrite the point with the same id
RECURSIVE qdrant_upsert(_, _)
qdrant_upsert(points, new) ==
    IF new = <<>>
    THEN points
    ELSE LET p == Head(new)
             kept == SelectSeq(points, LAMBDA old : old.id # p.id)
         IN  qdrant_upsert(Append(kept, p), Tail(new))

\* Filter(must=[FieldCondition(key, MatchValue(value)) ...]) on a payload
filter_matches(payload, filter_conditions) ==
    \A kv \in filter_conditions :
        kv[1] \in DOMAIN payload /\ payload[kv[1]] = kv[2]

\* positions of keys, largest key first, equal keys in list order
RECURSIVE order_descending(_, _)
order_descending(keys, remaining) ==
    IF remaining = {}
    THEN <<>>
    ELSE LET best == CHOOSE i \in remaining :
                        \A j \in remaining :
                            keys[i] > keys[j] \/ (keys[i] = keys[j] /\ i <= j)
         IN  <<best>> \o order_descending(keys, remaining \ {best})

\* the matching points in insertion order, each with its score
scored_points(points, query_vector, query_filter) ==
    LET matching == SelectSeq(points,
                        LAMBDA p : filter_matches(p.payload, query_filter))
    IN  [k \in 1..Len(matching) |->
            [payload |-> matching[k].payload,
             score |-> cosine_similarity(query_vector, matching[k].vector)]]

\* the first `limit` matching points in insertion order
qdrant_search_unsorted(points, query_vector, query_filter, limit) ==
    PySlice(scored_points(points, query_vector, query_filter), 0, limit)

\* qdrant_client.search(query_vector, query_filter, limit) on a collection
\* with Distance.COSINE: the `limit` best matching points, best first
qdrant_search(points, query_vector, query_filter, limit) ==
    LET hits == scored_points(points, query_vector, query_filter)
        order == order_descending([k \in 1..Len(hits) |-> hits[k].score],
                                  1..Len(hits))
    IN  PySlice([k \in 1..Len(hits) |-> hits[order[k]]], 0, limit)

\* payload.get(key, default)
payload_get(payload, key, default) ==
    IF key \in DOMAIN payload THEN payload[key] ELSE default

no_information ==
    [kind |-> "I couldn't find relevant information", context |-> <<>>, sections |-> 0]

\* the answer that quotes the context whatever the context is
generate_answer_unchecked(context_texts) ==
    [kind |-> "Based on the documents",
     context |-> PySlice(context_texts, 0, 3),
     sections |-> Len(context_texts)]

\* RAGService._generate_answer: the fixed message, or the text that quotes
\* context_texts[:3] and counts the sections
generate_answer(context_texts) ==
    IF context_texts = <<>>
    THEN no_information
    ELSE [kind |-> "Based on the documents",
          context |-> PySlice(context_texts, 0, 3),
          sections |-> Len(context_texts)]

\* the parameters query can be called with
query_parameters == {"query", "top_k", "filters"}

query_raised(error) == [status |-> "raised", error |-> error]

\* RAGService.query called with the keyword arguments named in kwargs:
\* binding, embed_text, search, the sources loop and _generate_answer
RAGService_query(kwargs, top_k, filters, embed_ok, search_ok) ==
    IF ~(kwargs \subseteq query_parameters)
    THEN query_raised("TypeError: unexpected keyword argument")
    ELSE IF ~embed_ok
    THEN query_raised("embed_text raised")
    ELSE IF ~search_ok
    THEN query_raised("search raised")
    ELSE LET hits == qdrant_search(qdrant_points, embed_text("q"), filters, top_k)
             sources == [k \in 1..Len(hits) |->
                            [text |-> payload_get(hits[k].payload, "text", ""),
                             score |-> hits[k].score,
                             filename |-> payload_get(hits[k].payload, "filename", "Unknown"),
                             chunk_index |-> payload_get(hits[k].payload, "chunk_index", 0)]]
             context_texts == [k \in 1..Len(hits) |->
                                  payload_get(hits[k].payload, "text", "")]
         IN  [status |-> "returned",
              answer |-> generate_answer(context_texts),
              sources |-> sources]

otherThanQuery == <<chunkVars, pipeRest, rerankVars, chatVars, citeVars, snippetVars,
                    clientVars, uploadVars,
                    lateVars>>

\* index_document(chunks, metadata) with chunks as DocumentProcessor.chunk_text
\* yields them (no empty chunk)
index_document ==
    /\ phase = "query"
    /\ \E chunks \in SeqsUpTo(ChunkTexts, MaxPoints) \ {<<>>} :
       \E filename \in {"a.pdf", "b.txt"} :
        /\ Len(qdrant_points) + Len(chunks) <= MaxPoints
        /\ qdrant_points' =
                qdrant_upsert(qdrant_points,
                    index_document_points(chunks, [filename |-> filename], next_uuid))
        /\ next_uuid' = next_uuid + 1 + Len(chunks)
    /\ UNCHANGED <<phase, query_ret>>
    /\ UNCHANGED otherThanQuery

\* a call query(query=..., top_k=..., filters=...) from any caller
query ==
    /\ phase \in {"query", "chat"}
    /\ \E top_k \in 1..MaxTopK : \E filters \in Filters :
       \E embed_ok \in BOOLEAN : \E search_ok \in BOOLEAN :
        query_ret' = [top_k |-> top_k, filters |-> filters, collection |-> qdrant_points]
                     @@ RAGService_query({"query", "top_k", "filters"},
                                         top_k, filters, embed_ok, search_ok)
    /\ UNCHANGED <<phase, qdrant_points, next_uuid>>
    /\ UNCHANGED otherThanQuery

QueryInit ==
    /\ phase = "query"
    /\ IdleChunk
    /\ IdlePipe
    /\ IdleRerank
    /\ IdleService

QueryNext ==
    \/ index_document
    \/ query

SpecQuery == QueryInit /\ [][QueryNext]_vars

----------------------------------------------------------------------------
(* SpecChat: the /api/chat handler.  A conversation id is a uuid4 value,   *)
(* or an id the client made up; the query text is "q" or empty; a message  *)
(* is {role, content}.                                                     *)

\* keyword arguments of the rag_service.query call in chat
chat_query_kwargs == {"query", "top_k", "initial_k"}
chat_top_k == 5

\* len(conversations[conversation_id]) > 20 keeps the last 20 messages
history_limit == 20

client_made_id == 0 - 2

user_message(content) == [role |-> "user", content |-> content]
assistant_message(content) == [role |-> "assistant", content |-> content]

\* lines 276-281: a missing or unknown conversation id gets an empty history
with_conversation(convs, conversation_id) ==
    IF conversation_id \in DOMAIN convs
    THEN convs
    ELSE (conversation_id :> <<>>) @@ convs

\* lines 421-432: both messages are appended and the history is cut
store_conversation(convs, conversation_id, query_text, answer) ==
    LET appended == convs[conversation_id]
                        \o <<user_message(query_text), assistant_message(answer)>>
    IN  [convs EXCEPT ![conversation_id] =
            IF Len(appended) > history_limit
            THEN PyTail(appended, Len(appended) - history_limit)
            ELSE appended]

\* the user message is stored although the request failed
on_exception_user_stored(convs, conversation_id, query_text) ==
    [convs EXCEPT ![conversation_id] = Append(@, user_message(query_text))]

\* lines 444-446: the handler answers 500; the append at lines 421-428 was
\* not reached, the conversations are as the failed step found them
on_exception(convs, conversation_id, query_text) == convs

error_response(n, status, mode, conversation_id, retrieval) ==
    [requests |-> n, status |-> status, mode |-> mode,
     conversation_id |-> conversation_id, retrieval |-> retrieval,
     body |-> [error |-> TRUE]]

ok_response(n, mode, conversation_id, retrieval, answer, sources, message_count) ==
    [requests |-> n, status |-> 200, mode |-> mode,
     conversation_id |-> conversation_id, retrieval |-> retrieval,
     body |-> [answer |-> answer, sources |-> sources,
               message_count |-> message_count]]

not_called == [status |-> "not called"]

otherThanChat == <<chunkVars, pipeRest, rerankVars, queryVars, citeVars, snippetVars,
                   clientVars, uploadVars,
                    lateVars>>

\* POST /api/chat: the whole handler.  force_mode is data['mode'],
\* orchestrator is what decide_chat_mode answers, chat_ok tells whether
\* chat_service.chat returns, embed_ok and search_ok whether the calls inside
\* rag_service.query return.
chat ==
    /\ phase = "chat"
    /\ chat_ret.requests < MaxRequests
    /\ \E query_text \in {"", "q"} :
       \E given_id \in {NoneInt, client_made_id} \cup DOMAIN conversations :
       \E force_mode \in {"None", "rag", "plain"} :
       \E orchestrator \in {"rag", "plain"} :
       \E chat_ok \in BOOLEAN : \E embed_ok \in BOOLEAN : \E search_ok \in BOOLEAN :
        LET n == chat_ret.requests + 1
            fresh == given_id = NoneInt
            conversation_id == IF fresh THEN uuid4(next_uuid) ELSE given_id
            convs == with_conversation(conversations, conversation_id)
            mode == IF force_mode \in {"rag", "plain"} THEN force_mode ELSE orchestrator
            retrieval == IF mode = "rag"
                         THEN RAGService_query(chat_query_kwargs, chat_top_k, {},
                                               embed_ok, search_ok)
                         ELSE not_called
            sources == IF retrieval.status = "returned" THEN retrieval.sources ELSE <<>>
        IN  IF query_text = ""
            THEN /\ chat_ret' = error_response(n, 400, "None", given_id, not_called)
                 /\ UNCHANGED <<conversations, next_uuid>>
            ELSE /\ next_uuid' = IF fresh THEN next_uuid + 1 ELSE next_uuid
                 /\ IF retrieval.status = "raised" \/ ~chat_ok
                    THEN /\ conversations' = on_exception(convs, conversation_id, query_text)
                         /\ chat_ret' = error_response(n, 500, mode, conversation_id, retrieval)
                    ELSE /\ conversations' =
                                store_conversation(convs, conversation_id, query_text, "a")
                         /\ chat_ret' = ok_response(n, mode, conversation_id, retrieval,
                                            "a", sources,
                                            Len(conversations'[conversation_id]))
    /\ UNCHANGED phase
    /\ UNCHANGED otherThanChat

ChatInit ==
    /\ phase = "chat"
    /\ IdleChunk
    /\ IdlePipe
    /\ IdleRerank
    /\ IdleService

ChatNext ==
    \/ chat
    \/ query

SpecChat == ChatInit /\ [][ChatNext]_vars

----------------------------------------------------------------------------
(* Properties of RAGService.query.                                         *)

QueryReturned == phase = "query" /\ query_ret.status = "returned"

\* the points of the collection, as query found it, that match its filter
MatchingPoints ==
    SelectSeq(query_ret.collection,
              LAMBDA p : filter_matches(p.payload, query_ret.filters))

C13_AnswerMatchesSources ==
    QueryReturned =>
        /\ (query_ret.sources = <<>>) <=> (query_ret.answer = no_information)
        /\ query_ret.sources # <<>> =>
            /\ query_ret.answer.kind = "Based on the documents"
            /\ query_ret.answer.sections = Len(query_ret.sources)
            /\ query_ret.answer.context =
                    [k \in 1..Min(3, Len(query_ret.sources)) |->
                        query_ret.sources[k].text]

\* a query on a collection that holds points, none of which matches the filter
C13_Witness ==
    /\ QueryReturned
    /\ query_ret.collection # <<>>
    /\ query_ret.sources = <<>>
    /\ query_ret.answer = no_information

----------------------------------------------------------------------------
(* Properties of /api/chat.                                                *)

RagRequest == phase = "chat" /\ chat_ret.status # 0 /\ chat_ret.mode = "rag"

\* C12: query accepts top_k and initial_k, searches initial_k neighbours and
\* narrows them to top_k (by reranking after the search, or by truncation), so
\* the call query(query, top_k=5, initial_k=30) of /api/chat is carried out:
\* it fails only when embedding or search fails, and otherwise yields at most
\* 5 sources.
C12_ChatRetrieves ==
    RagRequest =>
        /\ chat_ret.retrieval.status = "raised" =>
                chat_ret.retrieval.error \in {"embed_text raised", "search raised"}
        /\ chat_ret.retrieval.status = "returned" =>
                Len(chat_ret.retrieval.sources) <= chat_top_k

----------------------------------------------------------------------------
(* SpecCitations: CitationService.process_citations.  A content item is    *)
(* {url, text, title}; its title is its position in the input, so that a   *)
(* citation can be traced to the item it was made from.                    *)

ContentUrls == {"", "http://a", "HTTP://A", "http://b"}
ContentTexts == {"", "t1", "t2"}

\* str.lower
lower(url) == IF url = "HTTP://A" THEN "http://a" ELSE url

\* CitationService._calculate_cosine_similarity, in units of 1/50:
\* max(0.0, min(1.0, (similarity + 1) / 2)), and 0.0 for a zero vector
calculate_cosine_similarity(vec1, vec2) ==
    IF Norm(vec1) = 0 \/ Norm(vec2) = 0
    THEN 0
    ELSE Max(0, Min(50, cosine_similarity(vec1, vec2) + 25))

\* the scored items in input order: an item without text is skipped, and so
\* is the item whose embedding call raises (failing_item, 0 for none)
scored_content(content, failing_item) ==
    LET kept == SelectSeq(content,
                    LAMBDA c : c.text # "" /\ c.title # failing_item)
    IN  [k \in 1..Len(kept) |->
            [url |-> kept[k].url, text |-> kept[k].text, title |-> kept[k].title,
             relevance_score |->
                calculate_cosine_similarity(embed_text("q"), embed_text(kept[k].text))]]

\* the scored items, cut to top_k without sorting them
score_citations_unsorted(content, top_k, query_embedding_ok, failing_item) ==
    IF content = <<>> \/ ~query_embedding_ok
    THEN <<>>
    ELSE PySlice(scored_content(content, failing_item), 0, top_k)

\* CitationService.score_citations: [] for no content and when embedding the
\* query raises; else the scored items, sorted by score (stable, descending)
\* and cut to top_k
score_citations(content, top_k, query_embedding_ok, failing_item) ==
    IF content = <<>> \/ ~query_embedding_ok
    THEN <<>>
    ELSE LET scored == scored_content(content, failing_item)
             order == order_descending(
                        [k \in 1..Len(scored) |-> scored[k].relevance_score],
                        1..Len(scored))
         IN  PySlice([k \in 1..Len(scored) |-> scored[order[k]]], 0, top_k)

\* CitationService.format_citations; the text is short, so that its snippet
\* is the text itself (see extract_snippet)
format_citations(scored) ==
    [k \in 1..Len(scored) |->
        [id |-> uuid4(k - 1),
         url |-> scored[k].url,
         title |-> scored[k].title,
         snippet |-> scored[k].text,
         relevanceScore |-> scored[k].relevance_score,
         highlightText |-> scored[k].text]]

\* of the citations that share a URL, the last one is kept
deduplicate_citations_keep_last(citations) ==
    LET keep(k) == /\ lower(citations[k].url) # ""
                   /\ \A j \in (k + 1)..Len(citations) :
                        lower(citations[j].url) # lower(citations[k].url)
        positions == {k \in 1..Len(citations) : keep(k)}
    IN  [n \in 1..Cardinality(positions) |->
            citations[CHOOSE k \in positions :
                        Cardinality({j \in positions : j < k}) = n - 1]]

RECURSIVE unique_citations(_, _)
unique_citations(citations, seen_urls) ==
    IF citations = <<>>
    THEN <<>>
    ELSE LET url == lower(Head(citations).url)
         IN  IF url # "" /\ url \notin seen_urls
             THEN <<Head(citations)>>
                  \o unique_citations(Tail(citations), seen_urls \cup {url})
             ELSE unique_citations(Tail(citations), seen_urls)

\* CitationService.deduplicate_citations: the first citation of every
\* lower-cased URL, a citation without URL is dropped
deduplicate_citations(citations) == unique_citations(citations, {})

otherThanCitations == <<chunkVars, pipeVars, rerankVars, queryVars, chatVars, snippetVars,
                        clientVars, uploadVars,
                    lateVars>>

\* process_citations(query, crawled_content, top_k)
process_citations ==
    /\ phase = "citations"
    /\ citations_ret.status = "pending"
    /\ LET scored == score_citations(crawled_content, citation_args.top_k,
                        citation_args.query_embedding_ok, citation_args.failing_item)
           formatted == format_citations(scored)
           unique == deduplicate_citations(formatted)
       IN  citations_ret' = [status |-> "returned", citations |-> unique]
    /\ UNCHANGED <<phase, crawled_content, citation_args>>
    /\ UNCHANGED otherThanCitations

CitationsInit ==
    /\ phase = "citations"
    /\ \E n \in 0..MaxContent :
        /\ \E urls \in [1..n -> ContentUrls] : \E texts \in [1..n -> ContentTexts] :
            crawled_content =
                [k \in 1..n |-> [url |-> urls[k], text |-> texts[k], title |-> k]]
        /\ citation_args \in [top_k : 1..MaxTopK,
                              query_embedding_ok : BOOLEAN,
                              failing_item : 0..n]
    /\ citations_ret = [status |-> "pending"]
    /\ IdleLate
    /\ IdleChunk
    /\ IdlePipe
    /\ IdleRerank
    /\ IdleQuery
    /\ IdleChat
    /\ IdleSnippet
    /\ IdleClient
    /\ IdleUpload

SpecCitations == CitationsInit /\ [][process_citations]_vars

----------------------------------------------------------------------------
(* Properties of process_citations.                                        *)

CitationsReturned == phase = "citations" /\ citations_ret.status = "returned"

\* the positions of the items that get a score
ScoredItems ==
    IF citation_args.query_embedding_ok
    THEN {k \in 1..Len(crawled_content) :
            crawled_content[k].text # "" /\ k # citation_args.failing_item}
    ELSE {}

ScoreOfItem(k) ==
    calculate_cosine_similarity(embed_text("q"), embed_text(crawled_content[k].text))

\* the number of scored items that come before item k in the ranking
RankOfItem(k) ==
    Cardinality({j \in ScoredItems :
        \/ ScoreOfItem(j) > ScoreOfItem(k)
        \/ ScoreOfItem(j) = ScoreOfItem(k) /\ j < k})

\* the lower-cased URLs that several input items share
SharedUrls ==
    {lower(crawled_content[k].url) : k \in
        {i \in 1..Len(crawled_content) :
            \E j \in 1..Len(crawled_content) :
                j # i /\ lower(crawled_content[j].url) = lower(crawled_content[i].url)}}

ItemsOfUrl(u) == {k \in 1..Len(crawled_content) : lower(crawled_content[k].url) = u}

CitationsOfUrl(u) ==
    {k \in 1..Len(citations_ret.citations) : lower(citations_ret.citations[k].url) = u}

\* C15 as stated: for every input in which several items share a URL
\* (case-insensitively), the output has exactly one citation for that URL
\* and its relevanceScore is the maximum of the scores of the items sharing it.
C15_ExactlyOnePerSharedUrl ==
    CitationsReturned =>
        \A u \in SharedUrls :
            /\ Cardinality(CitationsOfUrl(u)) = 1
            /\ \A c \in CitationsOfUrl(u) : \A k \in ItemsOfUrl(u) \cap ScoredItems :
                    citations_ret.citations[c].relevanceScore >= ScoreOfItem(k)

\* C15 amended: for a URL shared by several items the output has at most one
\* citation; it has one exactly when the URL is not empty and one of the
\* sharing items is scored and ranks among the top_k scored items, and then
\* its relevanceScore is the maximum of the scores of the scored items sharing
\* the URL.
C15_AtMostOnePerSharedUrl ==
    CitationsReturned =>
        \A u \in SharedUrls :
            LET ranked == {k \in ItemsOfUrl(u) \cap ScoredItems :
                                RankOfItem(k) < citation_args.top_k}
            IN  /\ Cardinality(CitationsOfUrl(u)) <= 1
                /\ (Cardinality(CitationsOfUrl(u)) = 1) <=> (u # "" /\ ranked # {})
                /\ \A c \in CitationsOfUrl(u) :
                    /\ \A k \in ItemsOfUrl(u) \cap ScoredItems :
                            citations_ret.citations[c].relevanceScore >= ScoreOfItem(k)
                    /\ \E k \in ItemsOfUrl(u) \cap ScoredItems :
                            citations_ret.citations[c].relevanceScore = ScoreOfItem(k)

\* two scored items share a URL in different letter case, the one with the
\* lower score comes first in the input, and one citation is returned for them
C15_Witness ==
    /\ CitationsReturned
    /\ \E u \in SharedUrls : \E i \in ItemsOfUrl(u) : \E j \in ItemsOfUrl(u) :
        /\ i < j
        /\ {i, j} \subseteq ScoredItems
        /\ crawled_content[i].url # crawled_content[j].url
        /\ ScoreOfItem(i) < ScoreOfItem(j)
        /\ Cardinality(CitationsOfUrl(u)) = 1

\* C16: process_citations scores, cuts to top_k, formats and deduplicates in
\* this order: the output has at most top_k citations in non-increasing order
\* of relevanceScore, each made from a different input item that has a
\* non-empty text and ranks among the top_k scored items.
C16_TopKThenDeduplicate ==
    CitationsReturned =>
        LET out == citations_ret.citations
        IN  /\ Len(out) <= citation_args.top_k
            /\ \A k \in 1..(Len(out) - 1) :
                    out[k].relevanceScore >= out[k + 1].relevanceScore
            /\ \A k \in 1..Len(out) :
                /\ out[k].title \in ScoredItems
                /\ crawled_content[out[k].title].text # ""
                /\ out[k].url = crawled_content[out[k].title].url
                /\ out[k].highlightText = crawled_content[out[k].title].text
                /\ out[k].relevanceScore = ScoreOfItem(out[k].title)
                /\ RankOfItem(out[k].title) < citation_args.top_k
            /\ \A k \in 1..Len(out) : \A j \in 1..Len(out) :
                    out[k].title = out[j].title => k = j

\* more unique URLs are scored than the cut lets through, a duplicate inside
\* the cut is dropped, and the best item is not the first of the input
C16_Witness ==
    /\ CitationsReturned
    /\ Cardinality(ScoredItems) > citation_args.top_k
    /\ Len(citations_ret.citations) < citation_args.top_k
    /\ Len(citations_ret.citations) >= 1
    /\ citations_ret.citations[1].title # 1
    /\ \E k \in ScoredItems :
        /\ RankOfItem(k) >= citation_args.top_k
        /\ lower(crawled_content[k].url) # ""
        /\ CitationsOfUrl(lower(crawled_content[k].url)) = {}

----------------------------------------------------------------------------
(* SpecSnippet: CitationService._extract_snippet.  A string is the list of *)
(* its characters: " " for a space, "x" for any other character.           *)

\* max_length of _extract_snippet, as format_citations passes it
snippet_max_length == 300

\* a string of n characters with spaces at the given 0-based positions
MakeText(n, spaces) == [k \in 1..n |-> IF (k - 1) \in spaces THEN " " ELSE "x"]

ellipsis == <<".", ".", ".">>

RECURSIVE lstrip(_)
lstrip(text) ==
    IF text # <<>> /\ Head(text) = " " THEN lstrip(Tail(text)) ELSE text

RECURSIVE rstrip(_)
rstrip(text) ==
    IF text # <<>> /\ text[Len(text)] = " "
    THEN rstrip(SubSeq(text, 1, Len(text) - 1))
    ELSE text

\* str.strip
strip(text) == rstrip(lstrip(text))

\* str.rfind(' '): the 0-based position of the last space, -1 without one
rfind_space(text) ==
    LET found == {k \in 0..(Len(text) - 1) : At(text, k) = " "}
    IN  IF found = {} THEN 0 - 1 ELSE SetMax(found)

\* any space counts as a break point
any_break_point(last_space, max_length) == last_space >= 0

\* last_space > max_length * 0.7
good_break_point(last_space, max_length) == 10 * last_space > 7 * max_length

\* CitationService._extract_snippet(text, max_length)
extract_snippet(text, max_length) ==
    IF text = <<>>
    THEN <<>>
    ELSE LET stripped == strip(text)
             snippet == PySlice(stripped, 0, max_length)
             last_space == rfind_space(snippet)
         IN  IF Len(stripped) <= max_length
             THEN stripped
             ELSE IF good_break_point(last_space, max_length)
                  THEN PySlice(snippet, 0, last_space) \o ellipsis
                  ELSE snippet \o ellipsis

\* lengths around max_length, and the empty and the one-character string
SnippetLengths ==
    {0, 1} \cup ((snippet_max_length - 2)..(snippet_max_length + MaxExtraChars))

\* where a text may have spaces: at its start, around 70% of max_length,
\* around max_length and at its end
SpacePositions(n) ==
    LET limit == (7 * snippet_max_length) \div 10
    IN  {0, 1, limit - 1, limit, limit + 1, limit + 2,
         snippet_max_length - 1, snippet_max_length, n - 1} \cap (0..(n - 1))

otherThanSnippet == <<chunkVars, pipeVars, rerankVars, queryVars, chatVars, citeVars,
                      clientVars, uploadVars,
                    lateVars>>

\* _extract_snippet(text, max_length=300)
extract_snippet_call ==
    /\ phase = "snippet"
    /\ snippet_ret.status = "pending"
    /\ snippet_ret' = [status |-> "returned",
                       snippet |-> extract_snippet(snippet_text, snippet_max_length)]
    /\ UNCHANGED <<phase, snippet_text>>
    /\ UNCHANGED otherThanSnippet

SnippetInit ==
    /\ phase = "snippet"
    /\ \E n \in SnippetLengths : \E spaces \in SUBSET SpacePositions(n) :
        snippet_text = MakeText(n, spaces)
    /\ snippet_ret = [status |-> "pending"]
    /\ IdleLate
    /\ IdleChunk
    /\ IdlePipe
    /\ IdleRerank
    /\ IdleQuery
    /\ IdleChat
    /\ IdleCite
    /\ IdleClient
    /\ IdleUpload

SpecSnippet == SnippetInit /\ [][extract_snippet_call]_vars

----------------------------------------------------------------------------
(* Properties of _extract_snippet.                                         *)

SnippetReturned == phase = "snippet" /\ snippet_ret.status = "returned"

StrippedText == strip(snippet_text)

\* 0-based positions of the spaces among the first 300 characters of the
\* stripped text
SpacesInWindow ==
    {k \in 0..(Min(Len(StrippedText), 300) - 1) : At(StrippedText, k) = " "}

\* C17: for a text whose stripped length exceeds 300 characters the snippet
\* has at most 303 characters and ends with "..."; it is cut at the last
\* space of the first 300 characters when that space lies beyond position 210
\* and cut hard at 300 characters otherwise; a text of stripped length <= 300
\* is returned stripped and without ellipsis.
C17_SnippetCut ==
    SnippetReturned =>
        LET out == snippet_ret.snippet
            n == Len(out)
        IN  IF Len(StrippedText) <= 300
            THEN out = StrippedText
            ELSE /\ n <= 303
                 /\ n >= 3
                 /\ <<out[n - 2], out[n - 1], out[n]>> = <<".", ".", ".">>
                 /\ IF \E k \in SpacesInWindow : k > 210
                    THEN SubSeq(out, 1, n - 3) =
                            SubSeq(StrippedText, 1, SetMax(SpacesInWindow))
                    ELSE SubSeq(out, 1, n - 3) = SubSeq(StrippedText, 1, 300)

\* a long text with leading whitespace whose last space in the window is at
\* position 211, where it is cut
C17_Witness ==
    /\ SnippetReturned
    /\ StrippedText # snippet_text
    /\ Len(StrippedText) > 300
    /\ SpacesInWindow # {}
    /\ SetMax(SpacesInWindow) = 211
    /\ Len(snippet_ret.snippet) = 214

----------------------------------------------------------------------------
(* Properties of the record ids.                                           *)

\* the number of records that the successful upsert_documents calls of file
\* f were given
UpsertedBy(f) ==
    SeqSum([k \in 1..Len(upsert_calls[f]) |->
        IF upsert_calls[f][k].ok
        THEN Len(PySlice(task[f].docs, upsert_calls[f][k].offset,
                         upsert_calls[f][k].offset + run_args.batch_size))
        ELSE 0])

RECURSIVE UpsertedByAll(_)
UpsertedByAll(fs) ==
    IF fs = {}
    THEN 0
    ELSE LET f == CHOOSE g \in fs : TRUE
         IN  UpsertedBy(f) + UpsertedByAll(fs \ {f})

\* C18: every upserted record gets an id that no record of the store has:
\* in every interleaving of concurrent ingestions, and when the same file is
\* ingested again, no record is overwritten and the store holds exactly as
\* many records as were upserted.
C18_FreshIds ==
    phase = "pipeline" =>
        /\ Cardinality(index) = UpsertedByAll(Files)
        /\ \A r1, r2 \in index : r1.id = r2.id => r1 = r2

\* the same file was submitted twice, both ingestions upserted all their
\* batches, and the store holds the same chunk under two ids
C18_Witness ==
    /\ phase = "pipeline"
    /\ \E f, g \in Files :
        /\ f # g
        /\ files[f] = files[g]
        /\ UpsertedBy(f) >= 2
        /\ UpsertedBy(g) >= 2
    /\ \E r1, r2 \in index : r1.id # r2.id /\ r1.metadata = r2.metadata

----------------------------------------------------------------------------
(* SpecEmbedClient: the embedding clients.  EmbeddingService of            *)
(* llm_service.py posts once per call; get_embedding of add_embeddings.py  *)
(* posts up to max_retries times.  A provider reply is a failed request    *)
(* (connection error, or an error status that raise_for_status raises), or *)
(* a response whose data list holds the embeddings.                        *)

max_retries == 3

ClientVectors == {<<1, 0>>, <<3, 4>>}

request_failed == [kind |-> "error", data |-> <<>>]

response(data) == [kind |-> "ok", data |-> data]

\* replies to a request with n inputs: a failure, or a response with up to n
\* embeddings
Replies(n) == {request_failed} \cup {response(d) : d \in SeqsUpTo(ClientVectors, n)}

client_raised(error) == [status |-> "raised", error |-> error]

client_returned(value) == [status |-> "returned", value |-> value]

\* EmbeddingService.get_embedding: raise_for_status, then data['data'][0]
EmbeddingService_get_embedding(reply) ==
    IF reply.kind = "error"
    THEN client_raised("RequestException")
    ELSE IF reply.data = <<>>
    THEN client_raised("IndexError")
    ELSE client_returned(At(reply.data, 0))

\* EmbeddingService.get_embeddings: raise_for_status, then the embedding of
\* every item of data['data']
EmbeddingService_get_embeddings(reply) ==
    IF reply.kind = "error"
    THEN client_raised("RequestException")
    ELSE client_returned([k \in 1..Len(reply.data) |-> reply.data[k]])

\* get_embedding of add_embeddings.py from its attempt-th attempt on:
\* replies[attempt] is the provider's reply to that attempt
RECURSIVE script_get_embedding(_, _)
script_get_embedding(replies, attempt) ==
    IF attempt >= max_retries
    THEN client_returned(<<>>)
    ELSE LET reply == At(replies, attempt)
         IN  IF reply.kind = "ok"
             THEN IF Len(reply.data) > 0
                  THEN client_returned(At(reply.data, 0))
                  ELSE client_returned(<<>>)
             ELSE IF attempt < max_retries - 1
                  THEN script_get_embedding(replies, attempt + 1)
                  ELSE client_returned(<<>>)

\* the loop of add_embeddings_to_chunks: a chunk gets its embedding when
\* get_embedding returned a non-empty one, and is kept without one otherwise
chunks_with_embeddings(chunks, replies) ==
    [k \in 1..Len(chunks) |->
        LET embedding == script_get_embedding(replies[k], 0).value
        IN  IF embedding # <<>>
            THEN [text |-> chunks[k], embedding |-> embedding]
            ELSE [text |-> chunks[k]]]

\* what the provider does during one get_embedding call of add_embeddings.py
AttemptReplies == [1..max_retries -> Replies(1)]

\* for the chunks of add_embeddings_to_chunks: every attempt fails, the last
\* attempt succeeds, the first attempt succeeds, the response holds no data
ChunkReplies ==
    {[k \in 1..max_retries |-> request_failed],
     [k \in 1..max_retries |-> IF k = max_retries THEN response(<<<<1, 0>>>>)
                                                 ELSE request_failed],
     [k \in 1..max_retries |-> response(<<<<3, 4>>>>)],
     [k \in 1..max_retries |-> response(<<>>)]}

TextLists == SeqsUpTo(ChunkTexts, MaxTexts)

otherThanClient == <<chunkVars, pipeVars, rerankVars, queryVars, chatVars, citeVars,
                     snippetVars, uploadVars,
                    lateVars>>

\* EmbeddingService.get_embedding(text)
get_embedding_call ==
    \E text \in ChunkTexts : \E reply \in Replies(1) :
        /\ phase = "embed_client"
        /\ embed_ret.status = "pending"
        /\ embed_request' =
                [function |-> "EmbeddingService.get_embedding",
                    texts |-> <<text>>, replies |-> <<reply>>]
        /\ embed_ret' = EmbeddingService_get_embedding(reply)
        /\ UNCHANGED phase
        /\ UNCHANGED otherThanClient

\* EmbeddingService.embed_text(text): alias of get_embedding
embed_text_call ==
    \E text \in ChunkTexts : \E reply \in Replies(1) :
        /\ phase = "embed_client"
        /\ embed_ret.status = "pending"
        /\ embed_request' =
                [function |-> "EmbeddingService.embed_text",
                    texts |-> <<text>>, replies |-> <<reply>>]
        /\ embed_ret' = EmbeddingService_get_embedding(reply)
        /\ UNCHANGED phase
        /\ UNCHANGED otherThanClient

\* EmbeddingService.get_embeddings(texts)
get_embeddings_call ==
    \E texts \in TextLists : \E reply \in Replies(Len(texts)) :
        /\ phase = "embed_client"
        /\ embed_ret.status = "pending"
        /\ embed_request' =
                [function |-> "EmbeddingService.get_embeddings",
                    texts |-> texts, replies |-> <<reply>>]
        /\ embed_ret' = EmbeddingService_get_embeddings(reply)
        /\ UNCHANGED phase
        /\ UNCHANGED otherThanClient

\* EmbeddingService.embed_batch(texts): alias of get_embeddings
embed_batch_call ==
    \E texts \in TextLists : \E reply \in Replies(Len(texts)) :
        /\ phase = "embed_client"
        /\ embed_ret.status = "pending"
        /\ embed_request' =
                [function |-> "EmbeddingService.embed_batch",
                    texts |-> texts, replies |-> <<reply>>]
        /\ embed_ret' = EmbeddingService_get_embeddings(reply)
        /\ UNCHANGED phase
        /\ UNCHANGED otherThanClient

\* add_embeddings.get_embedding(text, api_key, model)
add_embeddings_get_embedding ==
    \E text \in ChunkTexts : \E replies \in AttemptReplies :
        /\ phase = "embed_client"
        /\ embed_ret.status = "pending"
        /\ embed_request' =
                [function |-> "add_embeddings.get_embedding",
                    texts |-> <<text>>, replies |-> replies]
        /\ embed_ret' = script_get_embedding(replies, 0)
        /\ UNCHANGED phase
        /\ UNCHANGED otherThanClient

\* add_embeddings.add_embeddings_to_chunks: the loop over the chunks
add_embeddings_to_chunks ==
    \E chunks \in TextLists : \E replies \in [1..Len(chunks) -> ChunkReplies] :
        /\ phase = "embed_client"
        /\ embed_ret.status = "pending"
        /\ embed_request' =
                [function |-> "add_embeddings.add_embeddings_to_chunks",
                    texts |-> chunks, replies |-> replies]
        /\ embed_ret' = client_returned(chunks_with_embeddings(chunks, replies))
        /\ UNCHANGED phase
        /\ UNCHANGED otherThanClient

ClientInit ==
    /\ phase = "embed_client"
    /\ embed_request = [function |-> "None"]
    /\ embed_ret = [status |-> "pending"]
    /\ IdleLate
    /\ IdleChunk
    /\ IdlePipe
    /\ IdleRerank
    /\ IdleQuery
    /\ IdleChat
    /\ IdleCite
    /\ IdleSnippet
    /\ IdleUpload

ClientNext ==
    \/ get_embedding_call
    \/ embed_text_call
    \/ get_embeddings_call
    \/ embed_batch_call
    \/ add_embeddings_get_embedding
    \/ add_embeddings_to_chunks

SpecEmbedClient == ClientInit /\ [][ClientNext]_vars

----------------------------------------------------------------------------
(* Properties of the embedding clients.                                    *)

ClientDone == phase = "embed_client" /\ embed_ret.status \in {"returned", "raised"}

SingleEmbedding ==
    embed_request.function \in {"EmbeddingService.get_embedding",
                                "EmbeddingService.embed_text",
                                "add_embeddings.get_embedding"}

BatchEmbedding ==
    embed_request.function \in {"EmbeddingService.get_embeddings",
                                "EmbeddingService.embed_batch"}

\* every request of the call failed
ProviderError ==
    \A k \in 1..Len(embed_request.replies) : embed_request.replies[k].kind = "error"

\* C19: on a provider error get_embedding, get_embeddings, embed_text and
\* embed_batch raise, and no call returns an empty vector or an empty list in
\* place of an embedding; on success get_embeddings returns one vector per
\* input text, in input order.
C19_FailsLoudly ==
    (ClientDone /\ (SingleEmbedding \/ BatchEmbedding)) =>
        /\ ProviderError => embed_ret.status = "raised"
        /\ (SingleEmbedding /\ embed_ret.status = "returned") => embed_ret.value # <<>>
        /\ (BatchEmbedding /\ embed_ret.status = "returned"
                /\ Len(embed_request.replies[1].data) = Len(embed_request.texts)) =>
                embed_ret.value = embed_request.replies[1].data

----------------------------------------------------------------------------
(* SpecUpload: the /api/upload handler up to and including its call of     *)
(* DocumentPipeline.process_files_parallel.                                *)

UploadNames == {"", "a.pdf", "b.txt", "c.exe"}
UploadUrls == {"", "u1", "u2"}

\* allowed_file(filename)
allowed_file(filename) == filename \in {"a.pdf", "b.txt"}

\* [url for url in drive_urls_raw if url and url.strip()]
drive_urls_of(form_urls) == SelectSeq(form_urls, LAMBDA url : url # "")

\* the parameters of DocumentPipeline.process_files_parallel
process_files_parallel_parameters ==
    {"filepaths", "filenames", "max_workers", "split_length", "split_overlap",
     "batch_size", "use_semantic_chunking", "similarity_threshold"}

\* the keyword arguments upload_file passes to process_files_parallel
upload_kwargs ==
    {"filepaths", "filenames", "drive_urls", "max_workers", "split_length",
     "split_overlap", "batch_size"}

otherThanUpload == <<chunkVars, pipeVars, rerankVars, queryVars, chatVars, citeVars,
                     snippetVars, clientVars,
                    lateVars>>

\* POST /api/upload with the given files and gcs_url form fields.  When the
\* call of process_files_parallel is accepted the files are ingested as
\* SpecParallel describes and the handler answers 200 with the summary.
upload_file ==
    /\ phase = "upload"
    /\ upload_ret.status = 0
    /\ \E names \in SeqsUpTo(UploadNames, NumFiles) :
       \E form_urls \in SeqsUpTo(UploadUrls, NumFiles) :
        LET drive_urls == drive_urls_of(form_urls)
        IN  /\ upload_request' = [files |-> names, form_urls |-> form_urls]
            /\ IF names = <<>> \/ names[1] = ""
               THEN upload_ret' = [status |-> 400, error |-> "No files provided"]
               ELSE IF \E k \in 1..Len(names) : ~allowed_file(names[k])
               THEN upload_ret' = [status |-> 400, error |-> "File type not allowed"]
               ELSE IF ~(upload_kwargs \subseteq process_files_parallel_parameters)
               THEN upload_ret' =
                        [status |-> 500,
                         error |-> "TypeError: unexpected keyword argument"]
               ELSE upload_ret' =
                        [status |-> 200, files_processed |-> Len(names),
                         drive_urls |-> drive_urls]
    /\ UNCHANGED phase
    /\ UNCHANGED otherThanUpload

UploadInit ==
    /\ phase = "upload"
    /\ upload_request = [files |-> <<>>]
    /\ upload_ret = [status |-> 0]
    /\ IdleLate
    /\ IdleChunk
    /\ IdlePipe
    /\ IdleRerank
    /\ IdleQuery
    /\ IdleChat
    /\ IdleCite
    /\ IdleSnippet
    /\ IdleClient

SpecUpload == UploadInit /\ [][upload_file]_vars

----------------------------------------------------------------------------
(* Properties of /api/upload.                                              *)

\* a request whose files are all present and of an allowed type
ValidUpload ==
    /\ phase = "upload"
    /\ upload_ret.status # 0
    /\ upload_request.files # <<>>
    /\ \A k \in 1..Len(upload_request.files) : allowed_file(upload_request.files[k])

\* C20: when an external source URL is supplied alongside a file, the
\* ingestion of that file runs and every record upserted for it carries the
\* URL in its metadata; a file without URL is ingested without it.
C20_UrlCarried ==
    ValidUpload =>
        /\ upload_ret.status = 200
        /\ upload_ret.files_processed = Len(upload_request.files)
        /\ upload_ret.drive_urls = drive_urls_of(upload_request.form_urls)

----------------------------------------------------------------------------
(* SpecRechunk: create_semantic_chunks_with_pages called several times on  *)
(* one DocumentPipeline object.  The object holds its embedding service,   *)
(* whose provider has been called some number of times; the calls on the   *)
(* inputs chosen at the start are recorded, calls on other inputs only     *)
(* leave their trace in the object.                                        *)

\* sentence lists as extract_text_with_pages builds them: page by page
RunSentenceLists ==
    {s \in SentenceLists :
        \A k \in 1..(Len(s) - 1) : s[k].page_number <= s[k + 1].page_number}

\* sentence embeddings as the provider returns them: no zero vector
RunEmbeddings == Embeddings \ {<<0, 0>>}

\* number of get_embeddings calls of the loop
\* "for i in range(0, len(chunk_texts), batch_size)"
chunk_embedding_calls(chunks) == CeilDiv(Len(chunks), embedding_batch_size)

\* a chunker that numbers its chunks on from the calls the object has seen
create_semantic_chunks_numbering_on(self_fields, sents, all_embeddings, args, provider_ok) ==
    LET st == IF sents = <<>>
              THEN [start |-> 0, chunks |-> <<>>, raised |-> FALSE]
              ELSE semantic_chunks(sents, all_embeddings, args)
        seen == self_fields.embedding_service.calls
        calls == IF st.raised THEN 0 ELSE chunk_embedding_calls(st.chunks)
    IN  [self |-> [self_fields EXCEPT !.embedding_service.calls = @ + calls],
         status |-> IF st.raised \/ (calls > 0 /\ ~provider_ok)
                    THEN "raised" ELSE "returned",
         chunks |-> IF st.raised \/ (calls > 0 /\ ~provider_ok)
                    THEN <<>>
                    ELSE [k \in 1..Len(st.chunks) |->
                            [st.chunks[k] EXCEPT !.metadata.chunk_index = @ + seen]]]

\* create_semantic_chunks_with_pages as a method: the object before the call,
\* the arguments, and whether the embedding provider answers the call for the
\* chunk texts; yields the object after the call and the outcome
create_semantic_chunks_on(self_fields, sents, all_embeddings, args, provider_ok) ==
    LET st == IF sents = <<>>
              THEN [start |-> 0, chunks |-> <<>>, raised |-> FALSE]
              ELSE semantic_chunks(sents, all_embeddings, args)
        calls == IF st.raised THEN 0 ELSE chunk_embedding_calls(st.chunks)
    IN  [self |-> [self_fields EXCEPT !.embedding_service.calls = @ + calls],
         status |-> IF st.raised \/ (calls > 0 /\ ~provider_ok)
                    THEN "raised" ELSE "returned",
         chunks |-> IF st.raised \/ (calls > 0 /\ ~provider_ok)
                    THEN <<>>
                    ELSE st.chunks]

RechunkInit ==
    /\ phase = "rechunk"
    /\ sentences_with_pages \in RunSentenceLists
    /\ chunk_args \in SemanticArgs
    /\ precomputed_embeddings \in [1..Len(sentences_with_pages) -> RunEmbeddings]
    /\ chunk_ret = [status |-> "idle", chunks |-> <<>>]
    /\ chunker_self = [embedding_service |-> [calls |-> 0]]
    /\ chunker_runs = [calls |-> 0, returned |-> <<>>]
    /\ IdlePipe
    /\ IdleRerank
    /\ IdleQuery
    /\ IdleChat
    /\ IdleCite
    /\ IdleSnippet
    /\ IdleClient
    /\ IdleUpload
    /\ IdleClean
    /\ IdleGov
    /\ IdleChunkText
    /\ IdleHandlers

otherThanRechunk == <<phase, sentences_with_pages, precomputed_embeddings, chunk_args,
                      chunk_ret, pipeVars, rerankVars, queryVars, chatVars, citeVars,
                      snippetVars, clientVars, uploadVars, cleanVars, govVars,
                      chunkTextVars, handlerVars>>

\* a call with the sentences, embeddings and configuration chosen at the start
chunk_same_input ==
    \E provider_ok \in BOOLEAN :
        LET call == create_semantic_chunks_on(chunker_self, sentences_with_pages,
                        precomputed_embeddings, chunk_args, provider_ok)
        IN  /\ phase = "rechunk"
            /\ chunker_runs.calls < MaxRuns
            /\ chunker_self' = call.self
            /\ chunker_runs' =
                    [calls |-> chunker_runs.calls + 1,
                     returned |-> IF call.status = "returned"
                                  THEN Append(chunker_runs.returned, call.chunks)
                                  ELSE chunker_runs.returned]
            /\ UNCHANGED otherThanRechunk

\* a call on the same object with other sentences: the same document without
\* its first sentence
chunk_other_input ==
    \E provider_ok \in BOOLEAN :
        LET call == create_semantic_chunks_on(chunker_self,
                        PyTail(sentences_with_pages, 1),
                        PyTail(precomputed_embeddings, 1), chunk_args, provider_ok)
        IN  /\ phase = "rechunk"
            /\ chunker_runs.calls < MaxRuns
            /\ chunker_self' = call.self
            /\ chunker_runs' = [chunker_runs EXCEPT !.calls = @ + 1]
            /\ UNCHANGED otherThanRechunk

RechunkNext ==
    \/ chunk_same_input
    \/ chunk_other_input

SpecRechunk == RechunkInit /\ [][RechunkNext]_vars

\* what the claim compares of a chunk
ChunkView(c) ==
    [text |-> c.text,
     page_numbers |-> c.metadata.page_numbers,
     chunk_index |-> c.metadata.chunk_index,
     num_sentences |-> c.metadata.num_sentences]

----------------------------------------------------------------------------
(* The split rule and the shape of the chunk list (SpecChunk).             *)

\* 0-based position of the first sentence of each returned chunk
RECURSIVE ChunkStart(_)
ChunkStart(k) ==
    IF k = 1 THEN 0
    ELSE ChunkStart(k - 1) + chunk_ret.chunks[k - 1].metadata.num_sentences

ChunkStarts == {ChunkStart(k) : k \in 1..Len(chunk_ret.chunks)}

\* the start of the chunk that is open when the loop reaches index i
OpenStart(i) == SetMax({s \in ChunkStarts : s < i})

\* sum of the cosine similarities (units of 1/25) between sentence i and the
\* sentences lo..i-1
RECURSIVE SimilaritySum(_, _)
SimilaritySum(lo, i) ==
    IF lo >= i THEN 0
    ELSE cosine_similarity(At(precomputed_embeddings, lo), At(precomputed_embeddings, i))
         + SimilaritySum(lo + 1, i)

\* the mean over the window lo..i-1 is below 0.76; an empty window counts as 1.0
MeanBelowThreshold(lo, i) ==
    /\ lo < i
    /\ 100 * SimilaritySum(lo, i) < chunk_args.similarity_threshold * 25 * (i - lo)

\* the claim's rule for closing the open chunk [start, i) at i
ClosesAt(start, i) ==
    \/ i - start >= chunk_args.max_chunk_size
    \/ /\ i - start >= chunk_args.min_chunk_size
       /\ MeanBelowThreshold(Max(start, i - chunk_args.buffer_size), i)

\* C22: for every i >= 1 the open chunk [start, i) is closed at i exactly when
\* it has max_chunk_size sentences, or has min_chunk_size sentences and the
\* mean cosine similarity between sentence i and the sentences of the window
\* [max(start, i - buffer_size), i) is below the threshold; an empty window
\* counts as 1.0 and closes nothing.
C22_SplitRule ==
    (Returned /\ chunk_args.use_semantic) =>
        \A i \in 1..(NumSentences - 1) :
            (i \in ChunkStarts) <=> ClosesAt(OpenStart(i), i)

\* a similarity split at an index whose window was cut short by the start of
\* the open chunk, and whose uncut window would not have split
C22_Witness ==
    /\ Returned /\ chunk_args.use_semantic
    /\ \E i \in 1..(NumSentences - 1) :
        /\ i \in ChunkStarts
        /\ OpenStart(i) > 0
        /\ i - OpenStart(i) < chunk_args.max_chunk_size
        /\ i - chunk_args.buffer_size < OpenStart(i)
        /\ ~MeanBelowThreshold(Max(0, i - chunk_args.buffer_size), i)

\* the sentence texts of the returned chunks, in list order
RECURSIVE ChunkTextsUpTo(_)
ChunkTextsUpTo(k) ==
    IF k = 0 THEN <<>> ELSE ChunkTextsUpTo(k - 1) \o chunk_ret.chunks[k].text

\* C23: the chunks returned by create_semantic_chunks_with_pages are non-empty
\* runs of sentences whose concatenation, in list order, is exactly the input
\* sequence; the k-th chunk (0-based) has chunk_index k and num_sentences equal
\* to the length of its run, and all chunks carry the same document_name.
C23_Partition ==
    (Returned /\ chunk_args.use_semantic) =>
        /\ ChunkTextsUpTo(Len(chunk_ret.chunks))
                = [j \in 1..NumSentences |-> sentences_with_pages[j].text]
        /\ \A k \in 1..Len(chunk_ret.chunks) :
            LET c == chunk_ret.chunks[k]
            IN  /\ c.text # <<>>
                /\ c.metadata.chunk_index = k - 1
                /\ c.metadata.num_sentences = Len(c.text)
                /\ c.metadata.document_name = chunk_ret.chunks[1].metadata.document_name

\* three sentences returned as a run of two and a run of one
C23_Witness ==
    /\ Returned /\ chunk_args.use_semantic
    /\ NumSentences = 3
    /\ Len(chunk_ret.chunks) = 2
    /\ chunk_ret.chunks[1].metadata.num_sentences = 2
    /\ chunk_ret.chunks[2].metadata.chunk_index = 1

\* C24: every chunk but the last has at least min(min_chunk_size,
\* max_chunk_size) sentences; the last one holds every sentence left at the
\* end of the input, whatever its size, and is there whenever a sentence is left.
C24_MinChunkSize ==
    (Returned /\ chunk_args.use_semantic) =>
        LET n == Len(chunk_ret.chunks)
        IN  /\ \A k \in 1..(n - 1) :
                chunk_ret.chunks[k].metadata.num_sentences
                    >= Min(chunk_args.min_chunk_size, chunk_args.max_chunk_size)
            /\ NumSentences > 0 =>
                /\ n >= 1
                /\ ChunkStart(n) + chunk_ret.chunks[n].metadata.num_sentences
                        = NumSentences

\* a last chunk below min_chunk_size and max_chunk_size, after a chunk of
\* min_chunk_size sentences
C24_Witness ==
    /\ Returned /\ chunk_args.use_semantic
    /\ Len(chunk_ret.chunks) = 2
    /\ chunk_ret.chunks[2].metadata.num_sentences
            < Min(chunk_args.min_chunk_size, chunk_args.max_chunk_size)
    /\ chunk_ret.chunks[1].metadata.num_sentences = chunk_args.min_chunk_size

\* a fixed-size call returned, in the pipeline or in the parsing script
FixedReturned ==
    /\ phase = "chunk"
    /\ ~chunk_args.use_semantic
    /\ chunk_ret.status \in {"returned", "returned_haystack"}

\* the sentence texts at the 0-based positions a..b-1
TextsOfRange(a, b) ==
    [j \in 1..(Min(b, NumSentences) - a) |-> sentences_with_pages[a + j].text]

----------------------------------------------------------------------------
(* Order of the stages of process_single_file (SpecPipeline).              *)

\* the step issues an embedding-provider call for file f
EmbeddingCall(f) == embed_calls'[f] # embed_calls[f]

\* the step issues an upsert for file f
UpsertCall(f) == upsert_calls'[f] # upsert_calls[f]

\* the chunk list of file f has been built
ChunksCreated(f) == task[f].pc \in {"embed_chunks", "upsert"}

\* C25 as claimed: in semantic and in fixed-size mode no embedding-provider
\* call for a file is issued before the chunks of the file are created, and no
\* upsert for the file is issued before every embedding call for it is done.
C25_StrictOrder ==
    [][\A f \in Files :
        /\ EmbeddingCall(f) => ChunksCreated(f)
        /\ Len(upsert_calls[f]) > 0 => ~EmbeddingCall(f)]_vars

\* C25 amended: the embedding calls for the chunk texts come after the chunks
\* are created; in semantic mode the calls for the sentence embeddings come
\* before any chunk exists, in fixed-size mode there is no such call; no
\* embedding call follows the first upsert, and an upsert is issued only from
\* the upload loop, after the last embedding call returned.
C25_OrderedStages ==
    [][\A f \in Files :
        /\ EmbeddingCall(f) =>
            \/ task[f].pc = "embed_chunks"
            \/ /\ run_args.use_semantic_chunking
               /\ task[f].pc = "embed_sentences"
               /\ task[f].chunks = <<>>
        /\ Len(upsert_calls[f]) > 0 => ~EmbeddingCall(f)
        /\ UpsertCall(f) => task[f].pc = "upsert"]_vars

\* a file ingested in semantic mode: sentence embeddings, chunk embeddings,
\* then two upserts
C25_Witness ==
    \E f \in Files :
        /\ phase = "pipeline" /\ Len(files) = 1 /\ Returned_(f)
        /\ run_args.use_semantic_chunking
        /\ task[f].result.success
        /\ embed_calls[f] = 2
        /\ Len(upsert_calls[f]) >= 2

----------------------------------------------------------------------------
(* SpecClean: the metadata cleaning of process_single_file (lines 402-439)  *)
(* applied to the metadata dict of one chunk.  A Python value is a record   *)
(* of its type, its str() and, for a list, its items.                       *)

PyNone == [type |-> "NoneType", repr |-> "None", items |-> <<>>]
PyInt(n) == [type |-> "int", repr |-> ToString(n), items |-> <<>>]
PyStr(str) == [type |-> "str", repr |-> str, items |-> <<>>]
PyList(items) == [type |-> "list", repr |-> "[...]", items |-> items]
PyDict == [type |-> "dict", repr |-> "{}", items |-> <<>>]

\* bool(value) for the values of the model
truthy(value) ==
    CASE value.type = "NoneType" -> FALSE
      [] value.type = "list" -> value.items # <<>>
      [] value.type = "str" -> value.repr # ""
      [] value.type = "int" -> value.repr # "0"
      [] OTHER -> TRUE

\* isinstance(value, (int, float, str, bool))
is_primitive(value) == value.type \in {"int", "float", "str", "bool"}

\* lines 406-410 with page_numbers left as they are
page_numbers_unconverted(metadata) ==
    IF "page_numbers" \in DOMAIN metadata /\ truthy(metadata["page_numbers"])
    THEN metadata
    ELSE [key \in DOMAIN metadata \cup {"page_numbers"} |->
            IF key = "page_numbers" THEN PyList(<<>>) ELSE metadata[key]]

\* lines 406-410: metadata['page_numbers'] as a list of str(p), or []
page_numbers_as_strings(metadata) ==
    [key \in DOMAIN metadata \cup {"page_numbers"} |->
        IF key # "page_numbers"
        THEN metadata[key]
        ELSE IF "page_numbers" \in DOMAIN metadata /\ truthy(metadata["page_numbers"])
             THEN PyList([k \in 1..Len(metadata["page_numbers"].items) |->
                            PyStr(metadata["page_numbers"].items[k].repr)])
             ELSE PyList(<<>>)]

\* lines 414-432: the loop over metadata.items() filling clean_metadata
clean_metadata(metadata) ==
    LET kept == {key \in DOMAIN metadata :
                    metadata[key].type = "NoneType" =>
                        key \in {"page_start", "page_end", "file_extension"}}
    IN  [key \in kept |->
            LET value == metadata[key]
            IN  IF value.type = "NoneType"
                THEN IF key \in {"page_start", "page_end"} THEN PyInt(0) ELSE PyStr("")
                ELSE IF value.type = "list" THEN value
                ELSE IF is_primitive(value) THEN value
                ELSE PyStr(value.repr)]

\* lines 402-437: the document dict of one chunk, the text left out
clean_document(metadata) == clean_metadata(page_numbers_as_strings(metadata))

\* page lists of a chunk: sorted, without duplicates
PageLists == {SortedList(S) : S \in SUBSET (1..MaxPage)}

\* metadata dicts: the keys make_chunk sets with values of their types or
\* None, page_numbers possibly missing, and possibly one more field
MetadataDicts ==
    LET required ==
            [document_name : {PyStr("doc"), PyNone},
             page_start : {PyInt(1), PyNone},
             page_end : {PyInt(MaxPage), PyNone},
             chunk_index : {PyInt(0)},
             file_extension : {PyStr("pdf"), PyStr(""), PyNone}]
        page_numbers == {PyList([k \in 1..Len(pl) |-> PyInt(pl[k])]) : pl \in PageLists}
                            \cup {PyNone}
        extra == {PyNone, PyDict, PyStr("x")}
        With(m, key, value) ==
            [k \in DOMAIN m \cup {key} |-> IF k = key THEN value ELSE m[k]]
        withPages == required \cup {With(m, "page_numbers", v) :
                                        m \in required, v \in page_numbers}
    IN  withPages \cup {With(m, "extra", v) : m \in withPages, v \in extra}

CleanInit ==
    /\ phase = "clean"
    /\ chunk_metadata \in MetadataDicts
    /\ clean_ret = [status |-> "pending"]
    /\ IdleChunk
    /\ IdlePipe
    /\ IdleRerank
    /\ IdleQuery
    /\ IdleChat
    /\ IdleCite
    /\ IdleSnippet
    /\ IdleClient
    /\ IdleUpload
    /\ IdleRechunk
    /\ IdleGov
    /\ IdleChunkText
    /\ IdleHandlers

\* one iteration of "for chunk, embedding in zip(chunks, embeddings)"
clean_chunk_metadata ==
    /\ phase = "clean"
    /\ clean_ret.status = "pending"
    /\ clean_ret' = [status |-> "returned", doc |-> clean_document(chunk_metadata)]
    /\ UNCHANGED <<phase, chunk_metadata, chunkVars, pipeVars, rerankVars, queryVars,
                   chatVars, citeVars, snippetVars, clientVars, uploadVars,
                   rechunkVars, govVars, chunkTextVars, handlerVars>>

CleanNext ==
    \/ clean_chunk_metadata

SpecClean == CleanInit /\ [][CleanNext]_vars

Cleaned == phase = "clean" /\ clean_ret.status = "returned"

IsNull(key) == key \in DOMAIN chunk_metadata /\ chunk_metadata[key].type = "NoneType"

\* C26: the metadata of a record handed to upsert_documents has no null and
\* only primitives or flat lists of primitives: page_numbers is a list of
\* strings, empty when the chunk has none; a null page_start or page_end
\* becomes 0 and a null file_extension the empty string; any other null field
\* is left out; a value that is neither primitive nor a list becomes its
\* string; every other value is passed on.
C26_CleanMetadata ==
    Cleaned =>
        LET doc == clean_ret.doc
        IN  /\ \A key \in DOMAIN doc :
                \/ is_primitive(doc[key])
                \/ /\ doc[key].type = "list"
                   /\ \A k \in 1..Len(doc[key].items) : is_primitive(doc[key].items[k])
            /\ "page_numbers" \in DOMAIN doc
            /\ doc["page_numbers"].type = "list"
            /\ \A k \in 1..Len(doc["page_numbers"].items) :
                    doc["page_numbers"].items[k].type = "str"
            /\ ("page_numbers" \notin DOMAIN chunk_metadata \/ IsNull("page_numbers"))
                    => doc["page_numbers"].items = <<>>
            /\ \A key \in {"page_start", "page_end"} : IsNull(key) => doc[key] = PyInt(0)
            /\ IsNull("file_extension") => doc["file_extension"] = PyStr("")
            /\ \A key \in DOMAIN chunk_metadata \ {"page_start", "page_end",
                                                   "file_extension", "page_numbers"} :
                /\ IsNull(key) => key \notin DOMAIN doc
                /\ ~IsNull(key) =>
                    doc[key] = IF is_primitive(chunk_metadata[key])
                                  \/ chunk_metadata[key].type = "list"
                               THEN chunk_metadata[key]
                               ELSE PyStr(chunk_metadata[key].repr)

\* a chunk with two pages, a null page_start and a null document_name, and a
\* dict in a further field
C26_Witness ==
    /\ Cleaned
    /\ IsNull("page_start")
    /\ IsNull("document_name")
    /\ "extra" \in DOMAIN chunk_metadata
    /\ chunk_metadata["extra"].type = "dict"
    /\ Len(clean_ret.doc["page_numbers"].items) = 2
    /\ clean_ret.doc["page_end"] = PyInt(MaxPage)

----------------------------------------------------------------------------
(* SpecGovSearch: GovernmentDataService.search_and_parse_with_retry, one   *)
(* search_datasets call per step.  A query is the list of its words.       *)

QueryWords == {"woo", "besluit"}

\* len(word)
word_len(word) == IF word = "woo" THEN 3 ELSE 7

\* max(words, key=len): the first of the longest words
main_word(words) ==
    words[CHOOSE k \in 1..Len(words) :
            /\ \A j \in 1..Len(words) : word_len(words[j]) <= word_len(words[k])
            /\ \A j \in 1..(k - 1) : word_len(words[j]) < word_len(words[k])]

NoSort == "None"
NoFilters == "None"

attempt(words, filters, sort, strategy) ==
    [query |-> words, filters |-> filters, sort |-> sort, strategy |-> strategy]

\* "if sort:" and "if filters:"
given(value) == value \notin {"None", ""}

\* the attempts list with no_filters tried before simplified
attempts_filters_first(words, filters, sort) ==
    <<attempt(words, filters, sort, "original")>>
    \o (IF given(sort) THEN <<attempt(words, filters, NoSort, "no_sort")>> ELSE <<>>)
    \o (IF given(filters)
        THEN <<attempt(words, NoFilters, NoSort, "no_filters")>> ELSE <<>>)
    \o (IF Len(words) > 2
        THEN <<attempt(PySlice(words, 0, 2), filters, NoSort, "simplified")>> ELSE <<>>)
    \o (IF Len(words) > 1
        THEN <<attempt(<<main_word(words)>>, NoFilters, NoSort, "single_word")>>
        ELSE <<>>)

\* lines 281-326: the attempts list
attempts_of(words, filters, sort) ==
    <<attempt(words, filters, sort, "original")>>
    \o (IF given(sort) THEN <<attempt(words, filters, NoSort, "no_sort")>> ELSE <<>>)
    \o (IF Len(words) > 2
        THEN <<attempt(PySlice(words, 0, 2), filters, NoSort, "simplified")>> ELSE <<>>)
    \o (IF given(filters)
        THEN <<attempt(words, NoFilters, NoSort, "no_filters")>> ELSE <<>>)
    \o (IF Len(words) > 1
        THEN <<attempt(<<main_word(words)>>, NoFilters, NoSort, "single_word")>>
        ELSE <<>>)

\* the metadata dict of a successful attempt (lines 348-356)
found_metadata(count, citations, att, words, i) ==
    [success |-> TRUE, total_count |-> count, returned_count |-> citations,
     query |-> att.query, original_query |-> words,
     strategy_used |-> att.strategy, attempts |-> i + 1]

\* the return value when the loop is exhausted (lines 366-373)
all_failed(words, attempts) ==
    [clean_context |-> "", citations |-> 0,
     metadata |-> [success |-> TRUE, total_count |-> 0, returned_count |-> 0,
                   query |-> words, strategy_used |-> "all_failed",
                   attempts |-> Len(attempts)]]

GovRequests ==
    [query : SeqsUpTo(QueryWords, MaxWords),
     filters : {NoFilters, "", "organization:x"},
     sort : {NoSort, "", "metadata_modified desc"}]

GovInit ==
    /\ phase = "gov_search"
    /\ gov_request \in GovRequests
    /\ gov_call = [pc |-> "called"]
    /\ gov_searches = <<>>
    /\ IdleChunk
    /\ IdlePipe
    /\ IdleRerank
    /\ IdleQuery
    /\ IdleChat
    /\ IdleCite
    /\ IdleSnippet
    /\ IdleClient
    /\ IdleUpload
    /\ IdleRechunk
    /\ IdleClean
    /\ IdleChunkText
    /\ IdleHandlers

otherThanGov == <<phase, chunkVars, pipeVars, rerankVars, queryVars, chatVars, citeVars,
                  snippetVars, clientVars, uploadVars, rechunkVars, cleanVars,
                  chunkTextVars, handlerVars>>

\* search_and_parse_with_retry(query, rows, filters, sort) up to the loop
build_attempts ==
    /\ phase = "gov_search"
    /\ gov_call.pc = "called"
    /\ gov_call' = [pc |-> "loop", i |-> 0,
                    attempts |-> attempts_of(gov_request.query, gov_request.filters,
                                             gov_request.sort)]
    /\ UNCHANGED <<gov_request, gov_searches>>
    /\ UNCHANGED otherThanGov

\* an iteration whose search_datasets call answers success = False
search_fails ==
    /\ phase = "gov_search"
    /\ gov_call.pc = "loop"
    /\ gov_call.i < Len(gov_call.attempts)
    /\ gov_searches' = Append(gov_searches,
            [attempt |-> At(gov_call.attempts, gov_call.i), outcome |-> "error"])
    /\ gov_call' = [gov_call EXCEPT !.i = @ + 1]
    /\ UNCHANGED gov_request
    /\ UNCHANGED otherThanGov

\* an iteration whose search succeeds with an empty result list
search_finds_nothing ==
    /\ phase = "gov_search"
    /\ gov_call.pc = "loop"
    /\ gov_call.i < Len(gov_call.attempts)
    /\ gov_searches' = Append(gov_searches,
            [attempt |-> At(gov_call.attempts, gov_call.i), outcome |-> "empty"])
    /\ gov_call' = [gov_call EXCEPT !.i = @ + 1]
    /\ UNCHANGED gov_request
    /\ UNCHANGED otherThanGov

\* an iteration whose search succeeds with results: they are parsed (a result
\* that cannot be parsed is skipped) and the call returns
search_finds_results ==
    \E count \in 1..MaxResults : \E citations \in 0..count :
        /\ phase = "gov_search"
        /\ gov_call.pc = "loop"
        /\ gov_call.i < Len(gov_call.attempts)
        /\ gov_searches' = Append(gov_searches,
                [attempt |-> At(gov_call.attempts, gov_call.i), outcome |-> "results"])
        /\ gov_call' =
                [pc |-> "returned", i |-> gov_call.i, attempts |-> gov_call.attempts,
                 ret |-> [clean_context |-> IF citations > 0 THEN "context" ELSE "",
                          citations |-> citations,
                          metadata |-> found_metadata(count, citations,
                                            At(gov_call.attempts, gov_call.i),
                                            gov_request.query, gov_call.i)]]
        /\ UNCHANGED gov_request
        /\ UNCHANGED otherThanGov

\* the loop is exhausted
return_all_failed ==
    /\ phase = "gov_search"
    /\ gov_call.pc = "loop"
    /\ gov_call.i = Len(gov_call.attempts)
    /\ gov_call' = [pc |-> "returned", i |-> gov_call.i, attempts |-> gov_call.attempts,
                    ret |-> all_failed(gov_request.query, gov_call.attempts)]
    /\ UNCHANGED <<gov_request, gov_searches>>
    /\ UNCHANGED otherThanGov

GovNext ==
    \/ build_attempts
    \/ search_fails
    \/ search_finds_nothing
    \/ search_finds_results
    \/ return_all_failed

SpecGovSearch == GovInit /\ [][GovNext]_vars

\* the strategies the claim lists for a request, in its order
StrategiesInOrder ==
    <<"original">>
    \o (IF given(gov_request.sort) THEN <<"no_sort">> ELSE <<>>)
    \o (IF Len(gov_request.query) > 2 THEN <<"simplified">> ELSE <<>>)
    \o (IF given(gov_request.filters) THEN <<"no_filters">> ELSE <<>>)
    \o (IF Len(gov_request.query) > 1 THEN <<"single_word">> ELSE <<>>)

GovReturned == phase = "gov_search" /\ gov_call.pc = "returned"

----------------------------------------------------------------------------
(* SpecChunkText: DocumentProcessor.chunk_text, one iteration of its while *)
(* loop per step.  A text is the list of its characters; "nl" is a newline.*)

TextChars == {"a", " ", "nl"}

\* text.rfind(ch, start, end) for 0 <= start: the 0-based position of the
\* last ch in text[start:end], -1 without one
text_rfind(text, ch, start, end) ==
    LET found == {k \in start..(Min(end, Len(text)) - 1) : At(text, k) = ch}
    IN  IF found = {} THEN 0 - 1 ELSE SetMax(found)

RECURSIVE lstrip_whitespace(_)
lstrip_whitespace(text) ==
    IF text # <<>> /\ Head(text) \in {" ", "nl"}
    THEN lstrip_whitespace(Tail(text))
    ELSE text

RECURSIVE rstrip_whitespace(_)
rstrip_whitespace(text) ==
    IF text # <<>> /\ text[Len(text)] \in {" ", "nl"}
    THEN rstrip_whitespace(SubSeq(text, 1, Len(text) - 1))
    ELSE text

\* str.strip() on a text with spaces and newlines
strip_whitespace(text) == rstrip_whitespace(lstrip_whitespace(text))

\* lines 93-101: the end of the chunk that starts at start
chunk_end(text, start, chunk_size) ==
    LET end == start + chunk_size
        space == text_rfind(text, " ", start, end)
        boundary == IF space = 0 - 1 THEN text_rfind(text, "nl", start, end) ELSE space
    IN  IF end < Len(text) /\ boundary # 0 - 1 /\ boundary > start
        THEN boundary + 1
        ELSE end

\* lines 108-110: the start of the next chunk
next_start(end, overlap) ==
    IF end - overlap <= 0 THEN end ELSE end - overlap

\* the processor's fields: 0 <= overlap < chunk_size
ProcessorFields ==
    {c \in [chunk_size : 1..MaxChunkSize, overlap : 0..MaxChunkSize] :
        c.overlap < c.chunk_size}

ChunkTextInit ==
    /\ phase = "chunk_text"
    /\ \E text \in SeqsUpTo(TextChars, MaxTextLen) : \E fields \in ProcessorFields :
        chunk_text_input = [text |-> text, chunk_size |-> fields.chunk_size,
                            overlap |-> fields.overlap]
    /\ chunk_text_state = [pc |-> "called", start |-> 0, chunks |-> <<>>, iterations |-> 0]
    /\ IdleChunk
    /\ IdlePipe
    /\ IdleRerank
    /\ IdleQuery
    /\ IdleChat
    /\ IdleCite
    /\ IdleSnippet
    /\ IdleClient
    /\ IdleUpload
    /\ IdleRechunk
    /\ IdleClean
    /\ IdleGov
    /\ IdleHandlers

otherThanChunkText == <<phase, chunk_text_input, chunkVars, pipeVars, rerankVars,
                        queryVars, chatVars, citeVars, snippetVars, clientVars,
                        uploadVars, rechunkVars, cleanVars, govVars, handlerVars>>

\* chunk_text(text) up to the loop: "if not text: return []"
chunk_text_enter ==
    /\ phase = "chunk_text"
    /\ chunk_text_state.pc = "called"
    /\ chunk_text_state' =
            [chunk_text_state EXCEPT
                !.pc = IF chunk_text_input.text = <<>> THEN "returned" ELSE "loop"]
    /\ UNCHANGED otherThanChunkText

\* one iteration of "while start < text_length"
chunk_text_iteration ==
    /\ phase = "chunk_text"
    /\ chunk_text_state.pc = "loop"
    /\ chunk_text_state.start < Len(chunk_text_input.text)
    /\ chunk_text_state.iterations < MaxIterations
    /\ LET text == chunk_text_input.text
           start == chunk_text_state.start
           end == chunk_end(text, start, chunk_text_input.chunk_size)
           chunk == strip_whitespace(PySlice(text, start, end))
       IN  chunk_text_state' =
                [chunk_text_state EXCEPT
                    !.chunks = IF chunk # <<>> THEN Append(@, chunk) ELSE @,
                    !.start = next_start(end, chunk_text_input.overlap),
                    !.iterations = @ + 1]
    /\ UNCHANGED otherThanChunkText

\* the loop condition fails: "return chunks"
chunk_text_return ==
    /\ phase = "chunk_text"
    /\ chunk_text_state.pc = "loop"
    /\ ~(chunk_text_state.start < Len(chunk_text_input.text))
    /\ chunk_text_state' = [chunk_text_state EXCEPT !.pc = "returned"]
    /\ UNCHANGED otherThanChunkText

ChunkTextNext ==
    \/ chunk_text_enter
    \/ chunk_text_iteration
    \/ chunk_text_return

SpecChunkText == ChunkTextInit /\ [][ChunkTextNext]_vars

\* the step is an iteration of the loop of chunk_text
ChunkTextIteration ==
    /\ phase = "chunk_text"
    /\ chunk_text_state.pc = "loop"
    /\ chunk_text_state'.iterations = chunk_text_state.iterations + 1

\* C29: chunk_text terminates for every text when 0 <= overlap < chunk_size,
\* because start strictly increases in every iteration of its loop, also when
\* end is pulled back to a word boundary less than overlap characters after
\* start.
C29_StartIncreases ==
    [][ChunkTextIteration => chunk_text_state'.start > chunk_text_state.start]_vars

----------------------------------------------------------------------------
(* SpecConversations: the handlers of /api/chat, /api/chat-plain and       *)
(* /api/research running on the threads of the server, one statement on    *)
(* app.conversations per step.  The handlers share the dict and take no    *)
(* lock.                                                                   *)

Threads == 1..MaxHandlers

Endpoints == {"chat", "chat_plain", "research"}

\* a history of n exchanges, as the handlers leave it
history_of(n) ==
    [k \in 1..(2 * n) |-> IF k % 2 = 1 THEN user_message("q") ELSE assistant_message("a")]

idle_handler == [pc |-> "idle", endpoint |-> "None", mode |-> "None",
                 conversation_id |-> NoneInt, appended |-> 0]

ConversationsInit ==
    /\ phase = "conversations"
    /\ \E n \in 0..(history_limit \div 2) :
            conversations = (client_made_id :> history_of(n))
    /\ chat_ret = [requests |-> 0, status |-> 0]
    /\ handlers = [t \in Threads |-> idle_handler]
    /\ handled = 0
    /\ IdleChunk
    /\ IdlePipe
    /\ IdleRerank
    /\ IdleQuery
    /\ IdleCite
    /\ IdleSnippet
    /\ IdleClient
    /\ IdleUpload
    /\ IdleRechunk
    /\ IdleClean
    /\ IdleGov
    /\ IdleChunkText

otherThanHandlers == <<phase, chat_ret, chunkVars, pipeRest, rerankVars, queryVars,
                       citeVars, snippetVars, clientVars, uploadVars, rechunkVars,
                       cleanVars, govVars, chunkTextVars>>

\* a thread takes a request: the handler reads the body, answers 400 to an
\* empty query, and otherwise makes sure the conversation exists
\* (chat 268-281, chat_plain 452-464, research 543-560)
receive(t) ==
    \E endpoint \in Endpoints : \E mode \in {"rag", "plain"} :
    \E query_text \in {"", "q"} : \E given_id \in {NoneInt, client_made_id} :
        LET fresh == given_id = NoneInt
            conversation_id == IF fresh THEN uuid4(next_uuid) ELSE given_id
        IN  /\ phase = "conversations"
            /\ handlers[t].pc \in {"idle", "responded", "failed"}
            /\ handled < MaxRequests
            /\ endpoint # "chat" => mode = "plain"
            /\ handled' = handled + 1
            /\ IF query_text = ""
               THEN /\ handlers' = [handlers EXCEPT ![t] =
                            [idle_handler EXCEPT !.pc = "failed", !.endpoint = endpoint]]
                    /\ UNCHANGED <<conversations, next_uuid>>
               ELSE /\ handlers' = [handlers EXCEPT ![t] =
                            [pc |-> "working", endpoint |-> endpoint, mode |-> mode,
                             conversation_id |-> conversation_id, appended |-> 0]]
                    /\ conversations' = with_conversation(conversations, conversation_id)
                    /\ next_uuid' = IF fresh THEN next_uuid + 1 ELSE next_uuid
            /\ UNCHANGED otherThanHandlers

\* the request ends in an error before the answer exists: an exception
\* reaches the handler's except clause, or research returns one of its error
\* bodies (612-714)
fail(t) ==
    /\ phase = "conversations"
    /\ handlers[t].pc = "working"
    /\ handlers' = [handlers EXCEPT ![t].pc = "failed"]
    /\ UNCHANGED <<conversations, next_uuid, handled>>
    /\ UNCHANGED otherThanHandlers

\* chat_service.chat(messages) returns the answer; in rag mode the query
\* call of chat raises before
answer(t) ==
    /\ phase = "conversations"
    /\ handlers[t].pc = "working"
    /\ ~(handlers[t].endpoint = "chat" /\ handlers[t].mode = "rag")
    /\ handlers' = [handlers EXCEPT ![t].pc = "answered"]
    /\ UNCHANGED <<conversations, next_uuid, handled>>
    /\ UNCHANGED otherThanHandlers

\* conversations[conversation_id].append({"role": "user", ...})
append_user(t) ==
    /\ phase = "conversations"
    /\ handlers[t].pc = "answered"
    /\ conversations' = [conversations EXCEPT ![handlers[t].conversation_id] =
                            Append(@, user_message("q"))]
    /\ handlers' = [handlers EXCEPT ![t].pc = "user_appended", ![t].appended = @ + 1]
    /\ UNCHANGED <<next_uuid, handled>>
    /\ UNCHANGED otherThanHandlers

\* conversations[conversation_id].append({"role": "assistant", ...})
append_assistant(t) ==
    /\ phase = "conversations"
    /\ handlers[t].pc = "user_appended"
    /\ conversations' = [conversations EXCEPT ![handlers[t].conversation_id] =
                            Append(@, assistant_message("a"))]
    /\ handlers' = [handlers EXCEPT ![t].pc = "assistant_appended", ![t].appended = @ + 1]
    /\ UNCHANGED <<next_uuid, handled>>
    /\ UNCHANGED otherThanHandlers

\* "if len(...) > 20: conversations[conversation_id] = ...[-20:]", then the
\* response is sent
limit_history(t) ==
    /\ phase = "conversations"
    /\ handlers[t].pc = "assistant_appended"
    /\ LET messages == conversations[handlers[t].conversation_id]
       IN  conversations' = [conversations EXCEPT ![handlers[t].conversation_id] =
                IF Len(messages) > history_limit
                THEN PyTail(messages, Len(messages) - history_limit)
                ELSE messages]
    /\ handlers' = [handlers EXCEPT ![t].pc = "responded"]
    /\ UNCHANGED <<next_uuid, handled>>
    /\ UNCHANGED otherThanHandlers

ConversationsNext ==
    \/ \E t \in Threads : receive(t)
    \/ \E t \in Threads : fail(t)
    \/ \E t \in Threads : answer(t)
    \/ \E t \in Threads : append_user(t)
    \/ \E t \in Threads : append_assistant(t)
    \/ \E t \in Threads : limit_history(t)

SpecConversations == ConversationsInit /\ [][ConversationsNext]_vars

\* the messages alternate user, assistant, starting with user
Alternates(messages) ==
    \A k \in 1..Len(messages) :
        messages[k].role = IF k % 2 = 1 THEN "user" ELSE "assistant"

\* C30: at the end of every request, also of one handled while another
\* request for the same conversation is in progress, the conversation holds
\* at most 20 messages that alternate user, assistant; a request that ended
\* in an error has appended no message.
C30_ConversationsWellFormed ==
    phase = "conversations" =>
        \A t \in Threads :
            /\ handlers[t].pc = "responded" =>
                /\ Len(conversations[handlers[t].conversation_id]) <= history_limit
                /\ Alternates(conversations[handlers[t].conversation_id])
            /\ handlers[t].pc = "failed" => handlers[t].appended = 0

====
